---- MODULE Spec2Model ----
(***************************************************************************)
(* A model of n8n-nodes-filecoin: the denomination converter               *)
(* (utils/unitConverter.ts), the Lotus JSON-RPC client                     *)
(* (transport/lotusClient.ts) and the operation handlers that use them.    *)
(*                                                                         *)
(* Strings are sequences of one-character strings, so that trimming,       *)
(* suffix matching, parsing and formatting are computed character by       *)
(* character as the code computes them.  Amounts are arbitrary-precision   *)
(* decimals kept as digit sequences, as bignumber.js keeps them.           *)
(***************************************************************************)
EXTENDS Integers, Sequences, FiniteSets, TLC

(***************************************************************************)
(* Characters and strings                                                  *)
(***************************************************************************)
Digits == {"0", "1", "2", "3", "4", "5", "6", "7", "8", "9"}

Zeros(n) == [i \in 1..n |-> "0"]

IsDigits(s) == \A i \in 1..Len(s) : s[i] \in Digits

MaxOf(S) == CHOOSE x \in S : \A y \in S : y <= x

MinOf(S) == CHOOSE x \in S : \A y \in S : x <= y

\* String.prototype.toLowerCase, on the letters the inputs are made of.
LowerChar(c) ==
    CASE c = "A" -> "a" [] c = "B" -> "b" [] c = "C" -> "c" [] c = "D" -> "d"
      [] c = "E" -> "e" [] c = "F" -> "f" [] c = "I" -> "i" [] c = "L" -> "l"
      [] c = "M" -> "m" [] c = "N" -> "n" [] c = "O" -> "o" [] c = "P" -> "p"
      [] c = "R" -> "r" [] c = "T" -> "t" [] c = "X" -> "x"
      [] OTHER -> c

toLowerCase(s) == [i \in 1..Len(s) |-> LowerChar(s[i])]

UpperChar(c) ==
    CASE c = "a" -> "A" [] c = "c" -> "C" [] c = "e" -> "E" [] c = "f" -> "F"
      [] c = "i" -> "I" [] c = "l" -> "L" [] c = "m" -> "M" [] c = "n" -> "N"
      [] c = "o" -> "O" [] c = "p" -> "P" [] c = "r" -> "R" [] c = "t" -> "T"
      [] OTHER -> c

toUpperCase(s) == [i \in 1..Len(s) |-> UpperChar(s[i])]

\* String.prototype.trim: leading and trailing white space removed.
trim(s) ==
    LET ns == {i \in 1..Len(s) : s[i] # " "}
    IN  IF ns = {} THEN <<>> ELSE SubSeq(s, MinOf(ns), MaxOf(ns))

\* String.prototype.endsWith
endsWith(s, t) ==
    /\ Len(t) <= Len(s)
    /\ SubSeq(s, Len(s) - Len(t) + 1, Len(s)) = t

\* String.prototype.includes
includes(s, t) ==
    \E i \in 1..(Len(s) - Len(t) + 1) : SubSeq(s, i, i + Len(t) - 1) = t

\* String.prototype.replace(t, ''): the FIRST occurrence of t is removed.
replaceFirst(s, t) ==
    LET at == {i \in 1..(Len(s) - Len(t) + 1) : SubSeq(s, i, i + Len(t) - 1) = t}
    IN  IF at = {} \/ t = <<>> THEN s
        ELSE LET i == MinOf(at)
             IN  SubSeq(s, 1, i - 1) \o SubSeq(s, i + Len(t), Len(s))

(***************************************************************************)
(* bignumber.js, as configured by unitConverter.ts                         *)
(*                                                                         *)
(* A BigNumber is NaN or (-1)^neg * c * 10^(-s): c the decimal digits of   *)
(* the coefficient without leading zeros, s >= 0 the number of fractional  *)
(* digits, with no trailing zero among the fractional digits.              *)
(***************************************************************************)
DECIMAL_PLACES == 36

ROUNDING_MODE == "ROUND_DOWN"

\* BigNumber.DEBUG is never set: an invalid string yields NaN, not an error.
BigNumberDEBUG == FALSE

BN_NaN == [nan |-> TRUE, neg |-> FALSE, c |-> <<"0">>, s |-> 0]

NaNString == <<"N", "a", "N">>

StripLeadingZeros(c) ==
    LET nz == {i \in 1..Len(c) : c[i] # "0"}
    IN  IF nz = {} THEN <<"0">> ELSE SubSeq(c, MinOf(nz), Len(c))

\* The canonical form of (-1)^neg * c * 10^(-s).
Normalize(neg, c, s) ==
    LET nz   == {i \in 1..Len(c) : c[i] # "0"}
        tz   == IF nz = {} THEN Len(c) ELSE Len(c) - MaxOf(nz)
        drop == IF tz < s THEN tz ELSE s
        c1   == StripLeadingZeros(SubSeq(c, 1, Len(c) - drop))
    IN  [nan |-> FALSE, neg |-> neg, c |-> c1,
         s |-> IF c1 = <<"0">> THEN 0 ELSE s - drop]

IsZero(x) == ~x.nan /\ x.c = <<"0">>

\* isNumeric = /^-?(?:\d+(?:\.\d*)?|\.\d+)(?:e[+-]?\d+)?$/i, on strings
\* without an exponent part.
isNumeric(str) ==
    LET body == IF Len(str) > 0 /\ str[1] = "-" THEN Tail(str) ELSE str
        dots == {i \in 1..Len(body) : body[i] = "."}
    IN  /\ Cardinality(dots) <= 1
        /\ \A i \in 1..Len(body) : body[i] \in Digits \/ body[i] = "."
        /\ \E i \in 1..Len(body) : body[i] \in Digits

\* The value of a string that isNumeric accepts.
ParseNumericString(str) ==
    LET neg  == str[1] = "-"
        body == IF neg THEN Tail(str) ELSE str
        dots == {i \in 1..Len(body) : body[i] = "."}
        dot  == IF dots = {} THEN Len(body) + 1 ELSE MinOf(dots)
        ip   == SubSeq(body, 1, dot - 1)
        fp   == SubSeq(body, dot + 1, Len(body))
    IN  Normalize(neg, ip \o fp, Len(fp))

\* new BigNumber(v) for a string v.  A string isNumeric rejects goes through
\* parseNumeric: "NaN" is NaN, surrounding white space is dropped and the
\* rest parsed again, anything else is NaN (an error only under DEBUG).
BigNumber(v) ==
    IF isNumeric(v) THEN [threw |-> FALSE, bn |-> ParseNumericString(v)]
    ELSE LET t == trim(v)
         IN  IF t = NaNString \/ t = <<"-">> \o NaNString
               THEN [threw |-> FALSE, bn |-> BN_NaN]
             ELSE IF t # v /\ isNumeric(t)
               THEN [threw |-> FALSE, bn |-> ParseNumericString(t)]
             ELSE [threw |-> BigNumberDEBUG, bn |-> BN_NaN]

\* k for a BigNumber that is 10^k, as every multiplier of FIL_DENOMINATIONS is.
Exponent(y) == Len(y.c) - 1

\* The digit sequence c plus one.
RECURSIVE IncDigits(_)
IncDigits(c) ==
    IF c = <<>> THEN <<"1">>
    ELSE LET last == c[Len(c)]
             init == SubSeq(c, 1, Len(c) - 1)
         IN  IF last = "9" THEN IncDigits(init) \o <<"0">>
             ELSE init \o << CASE last = "0" -> "1" [] last = "1" -> "2"
                               [] last = "2" -> "3" [] last = "3" -> "4"
                               [] last = "4" -> "5" [] last = "5" -> "6"
                               [] last = "6" -> "7" [] last = "7" -> "8"
                               [] OTHER -> "9" >>

\* round(x, dp, rm): x kept to dp fractional digits.  ROUND_DOWN drops the
\* digits beyond dp (towards zero); ROUND_HALF_UP is the library's default.
Round(x, dp, rm) ==
    IF x.nan \/ x.s <= dp THEN x
    ELSE LET cut  == x.s - dp
             pad  == IF Len(x.c) < cut + 1
                       THEN Zeros(cut + 1 - Len(x.c)) \o x.c ELSE x.c
             keep == SubSeq(pad, 1, Len(pad) - cut)
             next == pad[Len(pad) - cut + 1]
             up   == rm = "ROUND_HALF_UP" /\ next \in {"5", "6", "7", "8", "9"}
         IN  Normalize(x.neg, IF up THEN IncDigits(keep) ELSE keep, dp)

\* x.multipliedBy(y), y a power of ten: exact, never rounded.
multipliedBy(x, y) ==
    IF x.nan \/ y.nan THEN BN_NaN
    ELSE Normalize(x.neg, x.c \o Zeros(Exponent(y)), x.s)

\* dividedBy as the library does it when BigNumber.config is never called:
\* 20 decimal places, ROUND_HALF_UP.
dividedByLibraryDefaults(x, y) ==
    IF x.nan \/ y.nan THEN BN_NaN
    ELSE Round(Normalize(x.neg, x.c, x.s + Exponent(y)), 20, "ROUND_HALF_UP")

\* x.dividedBy(y), y a power of ten: the quotient rounded to DECIMAL_PLACES
\* by ROUNDING_MODE.
dividedBy(x, y) ==
    IF x.nan \/ y.nan THEN BN_NaN
    ELSE Round(Normalize(x.neg, x.c, x.s + Exponent(y)),
               DECIMAL_PLACES, ROUNDING_MODE)

\* The digits of c * 10^(-s) in normal notation, unsigned.
FixedPoint(c, s) ==
    IF s = 0 THEN c
    ELSE IF Len(c) > s
      THEN SubSeq(c, 1, Len(c) - s) \o <<".">> \o SubSeq(c, Len(c) - s + 1, Len(c))
    ELSE <<"0", ".">> \o Zeros(s - Len(c)) \o c

\* toFixed(18) where toFixed() is meant: digits beyond the 18th are dropped.
toFixedEighteen(x) ==
    IF x.nan THEN NaNString
    ELSE LET r == Round(x, 18, ROUNDING_MODE)
         IN  (IF x.neg /\ ~IsZero(x) THEN <<"-">> ELSE <<>>) \o FixedPoint(r.c, r.s)

\* x.toFixed(): normal notation, all digits; the sign is shown unless x is
\* zero.
toFixed(x) ==
    IF x.nan THEN NaNString
    ELSE (IF x.neg /\ ~IsZero(x) THEN <<"-">> ELSE <<>>) \o FixedPoint(x.c, x.s)

\* x.toFixed(dp): rounded to dp fractional digits by ROUNDING_MODE and padded
\* with zeros to exactly dp; the sign is that of x before rounding.
toFixedDp(x, dp) ==
    IF x.nan THEN NaNString
    ELSE LET r == Round(x, dp, ROUNDING_MODE)
         IN  (IF x.neg /\ ~IsZero(x) THEN <<"-">> ELSE <<>>)
               \o FixedPoint(r.c \o Zeros(dp - r.s), dp)

\* x.isGreaterThanOrEqualTo(0)
isGreaterThanOrEqualToZero(x) == ~x.nan /\ (~x.neg \/ IsZero(x))

(***************************************************************************)
(* utils/unitConverter.ts                                                  *)
(***************************************************************************)
attoFIL == <<"a", "t", "t", "o", "F", "I", "L">>

femtoFIL == <<"f", "e", "m", "t", "o", "F", "I", "L">>

picoFIL == <<"p", "i", "c", "o", "F", "I", "L">>

nanoFIL == <<"n", "a", "n", "o", "F", "I", "L">>

microFIL == <<"m", "i", "c", "r", "o", "F", "I", "L">>

milliFIL == <<"m", "i", "l", "l", "i", "F", "I", "L">>

FIL == <<"F", "I", "L">>

\* Object.entries(FIL_DENOMINATIONS), in the order the table is written.
FIL_DENOMINATIONS ==
    << [denom |-> attoFIL,  multiplier |-> <<"1">>],
       [denom |-> femtoFIL, multiplier |-> <<"1">> \o Zeros(3)],
       [denom |-> picoFIL,  multiplier |-> <<"1">> \o Zeros(6)],
       [denom |-> nanoFIL,  multiplier |-> <<"1">> \o Zeros(9)],
       [denom |-> microFIL, multiplier |-> <<"1">> \o Zeros(12)],
       [denom |-> milliFIL, multiplier |-> <<"1">> \o Zeros(15)],
       [denom |-> FIL,      multiplier |-> <<"1">> \o Zeros(18)] >>

FilDenomination == {FIL_DENOMINATIONS[i].denom : i \in 1..Len(FIL_DENOMINATIONS)}

\* FIL_DENOMINATIONS[d]
Multiplier(d) ==
    FIL_DENOMINATIONS[CHOOSE i \in 1..Len(FIL_DENOMINATIONS) :
                          FIL_DENOMINATIONS[i].denom = d].multiplier

\* What a converter call produces: a returned string, or a thrown error.
Returned(v) == [threw |-> FALSE, value |-> v]

Thrown == [threw |-> TRUE, value |-> <<>>]

filToAttoFil(fil) ==
    LET bn == BigNumber(fil)
    IN  IF bn.threw THEN Thrown
        ELSE Returned(toFixedDp(multipliedBy(bn.bn, BigNumber(Multiplier(FIL)).bn), 0))

attoFilToFil(attoFil) ==
    LET bn == BigNumber(attoFil)
    IN  IF bn.threw THEN Thrown
        ELSE Returned(toFixed(dividedBy(bn.bn, BigNumber(Multiplier(FIL)).bn)))

convertFilUnits(amt, frm, dst) ==
    LET bn             == BigNumber(amt)
        fromMultiplier == BigNumber(Multiplier(frm)).bn
        toMultiplier   == BigNumber(Multiplier(dst)).bn
    IN  IF bn.threw THEN Thrown
        ELSE LET inAttoFil == multipliedBy(bn.bn, fromMultiplier)
             IN  Returned(toFixed(dividedBy(inAttoFil, toMultiplier)))

isValidFilAmount(amt) ==
    LET bn == BigNumber(amt)
    IN  ~bn.threw /\ ~bn.bn.nan /\ isGreaterThanOrEqualToZero(bn.bn)

\* parseFloat(s) < 1000000 for a string without "." and without an exponent:
\* the longest prefix [-]digits is the number read, NaN (never below anything)
\* when there is no digit.
parseFloatBelowMillion(s) ==
    LET neg  == Len(s) > 0 /\ s[1] = "-"
        body == IF neg THEN Tail(s) ELSE s
        stop == {i \in 1..Len(body) : body[i] \notin Digits}
        n    == IF stop = {} THEN Len(body) ELSE MinOf(stop) - 1
    IN  /\ n > 0
        /\ neg \/ Len(StripLeadingZeros(SubSeq(body, 1, n))) < 7

\* The table tried with its shortest name, FIL, first.
SuffixOrderFilFirst ==
    <<FIL_DENOMINATIONS[Len(FIL_DENOMINATIONS)]>>
      \o SubSeq(FIL_DENOMINATIONS, 1, Len(FIL_DENOMINATIONS) - 1)

\* The entries parseFilInput tries, in order.
SuffixOrder == FIL_DENOMINATIONS

parseFilInput(input) ==
    LET trimmed == toLowerCase(trim(input))
        hits    == {i \in 1..Len(SuffixOrder) :
                      endsWith(trimmed, toLowerCase(SuffixOrder[i].denom))}
    IN  IF hits # {}
          THEN LET denom == SuffixOrder[MinOf(hits)].denom
                   amt   == trim(replaceFirst(trimmed, toLowerCase(denom)))
               IN  convertFilUnits(amt, denom, attoFIL)
        ELSE IF includes(trimmed, <<".">>) \/ parseFloatBelowMillion(trimmed)
          THEN filToAttoFil(trimmed)
        ELSE Returned(trimmed)

(***************************************************************************)
(* State                                                                   *)
(***************************************************************************)
VARIABLES
    amount,   \* converter: the amount string given
    suffix,   \* converter: what parseFilInput's input carries after the amount
    denom,    \* converter: the denomination the suffix names, <<>> for none
    from,     \* converter: convertFilUnits' source denomination
    to,       \* converter: convertFilUnits' target denomination
    op,       \* converter: "input", then the name of the function applied
    out,      \* converter: what the function produced
    back,     \* converter: what converting out back produced
    requestId,  \* LotusClient: this.requestId
    callPc,     \* LotusClient: each call(): "idle", "pending", "returned", "thrown"
    callId,     \* LotusClient: each call()'s local id
    posts,      \* LotusClient: the HTTP POSTs sent, in order
    response,   \* LotusClient: what the endpoint answered each call()
    settled,    \* LotusClient: what each call() returned or threw
    hOperation, \* handler: the operation parameter of the item
    hParams,    \* handler: the item's other parameters
    hPc,        \* handler: "start", the RPC method awaited, "done" or "failed"
    hLocal,     \* handler: the address a WalletDefaultAddress call resolved
    hRequests,  \* handler: the RPC requests issued, in order
    hError,     \* handler: the message of the error thrown
    dataSize,   \* calculatePaddedPieceSize: its bigint argument
    size,       \* calculatePaddedPieceSize: the local size
    piecePc,    \* calculatePaddedPieceSize: "input", "loop" or "done"
    paddedSize, \* calculatePaddedPieceSize: the bigint returned
    addrIn,     \* address utilities: the string given
    testnet,    \* address utilities: ethAddressToFilecoin's testnet flag
    addrFn,     \* address utilities: "input", then the function applied
    addrOut,    \* address utilities: what the function returned or threw
    addrBack,   \* address utilities: what filecoinToEthAddress made of addrOut
    cidInput,   \* CID utilities: the string given
    cidFn,      \* CID utilities: "input", then the function applied
    cidOut,     \* CID utilities: the {cid, valid, version} produced
    dealOp,     \* deal lookup: "getDealProposal" or "getDealById"
    dealPc,     \* deal lookup: "start", "StateMarketStorageDeal", "done", "failed"
    deal,       \* deal lookup: the Proposal fields of the deal returned
    durationEpochs, \* deal lookup: the local durationEpochs
    totalCost,  \* deal lookup: totalCost.toString()
    fanOp,      \* joined lookups: the operation
    fanPc,      \* joined lookups: "start", "before", "legs", "after", "done", "failed"
    fanLegs,    \* joined lookups: each leg "pending", "fulfilled", "caught", "rejected"
    fanRequests, \* joined lookups: the RPC methods requested, in order
    exCount,      \* execute: items.length
    exContinue,   \* execute: what this.continueOnFail() answers
    exIndex,      \* execute: the loop variable i
    exCalled,     \* execute: the items whose operation was called, in order
    exReturnData, \* execute: returnData
    exPc,         \* execute: "loop", "returned" or "thrown"
    keyParams,    \* private key: the operation and the parameters both runs share
    keySecret,    \* private key: the key of the first run and of the second
    keyError,     \* private key: the message each run threw, <<>> for none
    keyPc,        \* private key: "input" or "done"
    tType,      \* trigger: the triggerType parameter
    tParams,    \* trigger: the address, minChange and feeThreshold parameters
    staticData, \* trigger: getWorkflowStaticData('node'), <<>> for undefined
    tSeen,      \* trigger: what the latest successful read returned
    tPolls,     \* trigger: the polls made
    tEmitted,   \* trigger: the events emitted by all polls
    tLast,      \* trigger: the latest poll, its reads, events and outcome
    sPc,           \* deal status: "start", "ChainHead", "built", "done" or "failed"
    sDeal,         \* deal status: the deal StateMarketStorageDeal answered
    sCurrentEpoch, \* deal status: head.Height
    sResult,       \* deal status: the status, isActive and isSlashed of the result
    signersStr, \* multisig create: the signers parameter
    threshold,  \* multisig create: the threshold parameter
    mPc,        \* multisig create: "start", the RPC method awaited, "done" or "failed"
    mRequests,  \* multisig create: the RPC methods requested, in order
    mError      \* multisig create: the message of the error it threw itself

convVars == <<amount, suffix, denom, from, to, op, out, back>>

rpcVars == <<requestId, callPc, callId, posts, response, settled>>

handlerVars == <<hOperation, hParams, hPc, hLocal, hRequests, hError>>

pieceVars == <<dataSize, size, piecePc, paddedSize>>

addrVars == <<addrIn, testnet, addrFn, addrOut, addrBack>>

cidVars == <<cidInput, cidFn, cidOut>>

dealVars == <<dealOp, dealPc, deal, durationEpochs, totalCost>>

fanVars == <<fanOp, fanPc, fanLegs, fanRequests>>

execVars == <<exCount, exContinue, exIndex, exCalled, exReturnData, exPc>>

keyVars == <<keyParams, keySecret, keyError, keyPc>>

trigVars == <<tType, tParams, staticData, tSeen, tPolls, tEmitted, tLast>>

statusVars == <<sPc, sDeal, sCurrentEpoch, sResult>>

msigVars == <<signersStr, threshold, mPc, mRequests, mError>>

nodeVars == <<execVars, keyVars, trigVars, statusVars, msigVars>>

utilVars == <<pieceVars, addrVars, cidVars, dealVars, fanVars, nodeVars>>

vars == <<convVars, rpcVars, handlerVars, utilVars>>

\* What the converter, the client and the handlers each leave alone.
otherThanConv == <<rpcVars, handlerVars, utilVars>>

otherThanRpc == <<convVars, handlerVars, utilVars>>

otherThanHandler == <<convVars, rpcVars, utilVars>>

otherThanPiece ==
    <<convVars, rpcVars, handlerVars, addrVars, cidVars, dealVars, fanVars,
      nodeVars>>

otherThanAddr ==
    <<convVars, rpcVars, handlerVars, pieceVars, cidVars, dealVars, fanVars,
      nodeVars>>

otherThanCid ==
    <<convVars, rpcVars, handlerVars, pieceVars, addrVars, dealVars, fanVars,
      nodeVars>>

otherThanDeal ==
    <<convVars, rpcVars, handlerVars, pieceVars, addrVars, cidVars, fanVars,
      nodeVars>>

\* A JavaScript value returned, or the error thrown in its place.
JsValue(k, b, n, str) == [kind |-> k, bool |-> b, num |-> n, str |-> str]

JsNone == JsValue("none", FALSE, 0, <<>>)

JsNull == JsValue("null", FALSE, 0, <<>>)

JsBoolean(b) == JsValue("boolean", b, 0, <<>>)

JsString(str) == JsValue("string", FALSE, 0, str)

JsThrown(message) == JsValue("thrown", FALSE, 0, message)

\* calculatePaddedPieceSize not called.
PieceIdle ==
    /\ dataSize = <<"0">>
    /\ size = <<>>
    /\ piecePc = "input"
    /\ paddedSize = <<>>

\* No address utility called.
AddrIdle ==
    /\ addrIn = <<>>
    /\ testnet = FALSE
    /\ addrFn = "input"
    /\ addrOut = JsNone
    /\ addrBack = JsNone

\* {cid, valid, version}, version -1 for null; or an error thrown.
CidResult(c, ok, v) == [cid |-> c, valid |-> ok, version |-> v, threw |-> FALSE]

CidThrown == [cid |-> <<>>, valid |-> FALSE, version |-> 0 - 1, threw |-> TRUE]

\* No CID utility called.
CidIdle ==
    /\ cidInput = <<>>
    /\ cidFn = "input"
    /\ cidOut = CidResult(<<>>, FALSE, 0 - 1)

\* StorageDeal.Proposal: the price a decimal string, the epochs numbers.
Proposal(price, start, end) ==
    [StoragePricePerEpoch |-> price, StartEpoch |-> start, EndEpoch |-> end]

NoDeal == Proposal(<<"0">>, 0, 0)

\* No deal lookup under way.
DealIdle ==
    /\ dealOp = "none"
    /\ dealPc = "start"
    /\ deal = NoDeal
    /\ durationEpochs = 0
    /\ totalCost = <<>>

otherThanFan ==
    <<convVars, rpcVars, handlerVars, pieceVars, addrVars, cidVars, dealVars,
      nodeVars>>

\* No operation with joined lookups under way.
FanIdle ==
    /\ fanOp = "none"
    /\ fanPc = "start"
    /\ fanLegs = <<>>
    /\ fanRequests = <<>>

\* execute not called.
ExecIdle ==
    /\ exCount = 0
    /\ exContinue = FALSE
    /\ exIndex = 0
    /\ exCalled = <<>>
    /\ exReturnData = <<>>
    /\ exPc = "loop"

\* No operation holding a private key run.
KeyIdle ==
    /\ keyParams = <<>>
    /\ keySecret = <<>>
    /\ keyError = <<>>
    /\ keyPc = "input"

\* The trigger never polled.
TriggerIdle ==
    /\ tType = "none"
    /\ tParams = <<>>
    /\ staticData = <<>>
    /\ tSeen = <<>>
    /\ tPolls = 0
    /\ tEmitted = 0
    /\ tLast = <<>>

\* getDealStatus not called.
StatusIdle ==
    /\ sPc = "start"
    /\ sDeal = <<>>
    /\ sCurrentEpoch = 0
    /\ sResult = <<>>

\* Multisig create not called.
MsigIdle ==
    /\ signersStr = <<>>
    /\ threshold = 0
    /\ mPc = "start"
    /\ mRequests = <<>>
    /\ mError = <<>>

\* Neither the node nor the trigger run.
NodeIdle == ExecIdle /\ KeyIdle /\ TriggerIdle /\ StatusIdle /\ MsigIdle

\* None of the utility functions called.
UtilIdle ==
    PieceIdle /\ AddrIdle /\ CidIdle /\ DealIdle /\ FanIdle /\ NodeIdle

\* No handler running.
HandlerIdle ==
    /\ hOperation = "none"
    /\ hParams = <<>>
    /\ hPc = "start"
    /\ hLocal = <<>>
    /\ hRequests = <<>>
    /\ hError = <<>>

NoValue == Returned(<<>>)

\* No converter call under way.
ConvIdle ==
    /\ suffix = <<>>
    /\ denom = <<>>
    /\ from = attoFIL
    /\ to = attoFIL
    /\ op = "input"
    /\ out = NoValue
    /\ back = NoValue

(***************************************************************************)
(* transport/lotusClient.ts: LotusClient.call                              *)
(***************************************************************************)
\* The call() invocations made on one client instance.
MaxCalls == 3

Calls == 1..MaxCalls

None == "none"

\* Message texts the endpoint puts in an error field.
RpcMessages == {"actor not found", "method not found"}

\* The error field of a JSON body: absent, or {code, message}.
NoError == [present |-> FALSE, code |-> 0, message |-> ""]

RpcErrors == [present : {TRUE}, code : {1}, message : RpcMessages]

\* response.data: a JSON object with its error and result fields, the JSON
\* literal null, text that is no JSON, or nothing (no response came).
NoData == [kind |-> "none", error |-> NoError, result |-> None]

DataValues ==
    [kind : {"object"}, error : {NoError} \cup RpcErrors, result : {"r"}]
      \cup [kind : {"null", "text"}, error : {NoError}, result : {None}]

\* What the transport can deliver for one POST: no response at all (status
\* 0, with axios' reason), or an HTTP status with a body.
Responses ==
    [status : {0}, reason : {"timeout of 30000ms exceeded"}, data : {NoData}]
      \cup [status : {200, 500}, reason : {None}, data : DataValues]

NoResponse == [status |-> 0, reason |-> None, data |-> NoData]

StatusText(n) == CASE n = 200 -> "200" [] n = 500 -> "500" [] OTHER -> "0"

\* client.post() under axios' default validateStatus: a 2xx status resolves
\* to the response, anything else rejects with an AxiosError that carries
\* the response when there is one.
axiosPost(resp) ==
    IF resp.status >= 200 /\ resp.status < 300
      THEN [fulfilled |-> TRUE, isAxiosError |-> FALSE, message |-> <<>>,
            hasResponse |-> TRUE, data |-> resp.data]
    ELSE IF resp.status = 0
      THEN [fulfilled |-> FALSE, isAxiosError |-> TRUE,
            message |-> <<resp.reason>>,
            hasResponse |-> FALSE, data |-> NoData]
    ELSE [fulfilled |-> FALSE, isAxiosError |-> TRUE,
          message |-> <<"Request failed with status code ", StatusText(resp.status)>>,
          hasResponse |-> TRUE, data |-> resp.data]

\* data.error, data?.error: undefined unless data is an object with the field.
ErrorField(data) == IF data.kind = "object" THEN data.error ELSE NoError

\* data.result
ResultField(data) == IF data.kind = "object" THEN data.result ELSE None

Unsettled == [kind |-> "none", result |-> None, message |-> <<>>]

Resolved(v) == [kind |-> "returned", result |-> v, message |-> <<>>]

Rejected(m) == [kind |-> "thrown", result |-> None, message |-> m]

\* An error that is no AxiosError, thrown inside the try block.
PlainError(m) ==
    [fulfilled |-> FALSE, isAxiosError |-> FALSE, message |-> m,
     hasResponse |-> FALSE, data |-> NoData]

\* The catch block with the test of response.data.error left out.
CatchBlockConnectionOnly(error) ==
    IF error.isAxiosError
      THEN Rejected(<<"Lotus connection error: ">> \o error.message)
    ELSE Rejected(error.message)

\* The catch block: an AxiosError is rewritten, with the RPC error of its
\* response body when there is one; any other error is thrown on as it is.
CatchBlock(error) ==
    IF error.isAxiosError
      THEN IF error.hasResponse /\ ErrorField(error.data).present
             THEN Rejected(<<"Lotus RPC Error: ", ErrorField(error.data).message>>)
           ELSE Rejected(<<"Lotus connection error: ">> \o error.message)
    ELSE Rejected(error.message)

\* The try block taking every 2xx response as a success.
TryBlockIgnoringError(posted) ==
    IF ~posted.fulfilled THEN CatchBlock(posted)
    ELSE Resolved(ResultField(posted.data))

\* The try block, given what the awaited post() gave: reading .error of null
\* is a TypeError, a populated error field is thrown as an Error, and both
\* pass through the catch block.
TryBlock(posted) ==
    IF ~posted.fulfilled THEN CatchBlock(posted)
    ELSE IF posted.data.kind = "null"
      THEN CatchBlock(PlainError(<<"Cannot read properties of null (reading 'error')">>))
    ELSE IF ErrorField(posted.data).present
      THEN CatchBlock(PlainError(<<"Lotus RPC Error: ", ErrorField(posted.data).message>>))
    ELSE Resolved(ResultField(posted.data))

\* What call() returns or throws when the transport delivers resp.
CallOutcome(resp) == TryBlock(axiosPost(resp))

\* this.requestId++ where ++this.requestId is meant.
PostIncrement(r) == [id |-> r, requestId |-> r + 1]

\* const id = ++this.requestId
PreIncrement(r) == [id |-> r + 1, requestId |-> r + 1]

\* The catch block sending the request once more before it gives up.
PostsOnFailureRetry(sent, c, outcome) ==
    IF outcome.kind = "thrown"
      THEN Append(sent, [call |-> c, id |-> callId[c]])
    ELSE sent

\* The POSTs sent once call() c has settled: call() sends nothing after the
\* one post() it awaits.
PostsOnSettle(sent, c, outcome) == sent

RpcIdle ==
    /\ requestId = 0
    /\ callPc = [c \in Calls |-> "idle"]
    /\ callId = [c \in Calls |-> 0]
    /\ posts = <<>>
    /\ response = [c \in Calls |-> NoResponse]
    /\ settled = [c \in Calls |-> Unsettled]

InitRpc ==
    /\ RpcIdle
    /\ amount = <<>>
    /\ ConvIdle
    /\ HandlerIdle
    /\ UtilIdle

\* call() up to its await: the id is taken and the POST goes out.
Invoke(c) ==
    /\ callPc[c] = "idle"
    /\ LET n == PreIncrement(requestId)
       IN  /\ requestId' = n.requestId
           /\ callId' = [callId EXCEPT ![c] = n.id]
           /\ posts' = Append(posts, [call |-> c, id |-> n.id])
    /\ callPc' = [callPc EXCEPT ![c] = "pending"]
    /\ UNCHANGED <<response, settled, otherThanRpc>>

\* The awaited post() settles and call() returns or throws.
Settle(c) ==
    /\ callPc[c] = "pending"
    /\ \E resp \in Responses :
          LET outcome == CallOutcome(resp)
          IN  /\ response' = [response EXCEPT ![c] = resp]
              /\ settled' = [settled EXCEPT ![c] = outcome]
              /\ callPc' = [callPc EXCEPT ![c] = outcome.kind]
              /\ posts' = PostsOnSettle(posts, c, outcome)
    /\ UNCHANGED <<requestId, callId, otherThanRpc>>

NextRpc ==
    \/ \E c \in Calls : Invoke(c)
    \/ \E c \in Calls : Settle(c)

SpecRpc == InitRpc /\ [][NextRpc]_vars

(***************************************************************************)
(* constants/addresses.ts and utils/addressUtils.ts: validateAddress        *)
(***************************************************************************)
LowerLetters ==
    {"a", "b", "c", "d", "e", "f", "g", "h", "i", "j", "k", "l", "m",
     "n", "o", "p", "q", "r", "s", "t", "u", "v", "w", "x", "y", "z"}

\* [a-z2-7]
Base32Chars == LowerLetters \cup {"2", "3", "4", "5", "6", "7"}

\* [a-fA-F0-9]
HexChars ==
    Digits \cup {"a", "b", "c", "d", "e", "f", "A", "B", "C", "D", "E", "F"}

AllIn(s, lo, hi, chars) == \A i \in lo..hi : s[i] \in chars

\* /^[ft]N<chars>{lo,hi}$/ for the protocol digit N
PayloadPattern(s, n, chars, lo, hi) ==
    /\ Len(s) >= 2 + lo /\ Len(s) <= 2 + hi
    /\ s[1] \in {"f", "t"} /\ s[2] = n
    /\ AllIn(s, 3, Len(s), chars)

\* ADDRESS_PATTERNS.ID_ADDRESS = /^[ft]0[0-9]+$/
ID_ADDRESS(s) ==
    /\ Len(s) >= 3
    /\ s[1] \in {"f", "t"} /\ s[2] = "0"
    /\ AllIn(s, 3, Len(s), Digits)

\* ADDRESS_PATTERNS.SECP256K1_ADDRESS = /^[ft]1[a-z2-7]{38,39}$/
SECP256K1_ADDRESS(s) == PayloadPattern(s, "1", Base32Chars, 38, 39)

\* ADDRESS_PATTERNS.ACTOR_ADDRESS = /^[ft]2[a-z2-7]{38,39}$/
ACTOR_ADDRESS(s) == PayloadPattern(s, "2", Base32Chars, 38, 39)

\* ADDRESS_PATTERNS.BLS_ADDRESS = /^[ft]3[a-z2-7]{84,86}$/
BLS_ADDRESS(s) == PayloadPattern(s, "3", Base32Chars, 84, 86)

\* ADDRESS_PATTERNS.ETH_ADDRESS = /^0x[a-fA-F0-9]{40}$/
ETH_ADDRESS(s) ==
    /\ Len(s) = 42
    /\ s[1] = "0" /\ s[2] = "x"
    /\ AllIn(s, 3, 42, HexChars)

\* parseInt(address.charAt(1), 10): the digit's value, -1 for NaN.
ProtocolDigit(s) ==
    IF Len(s) < 2 THEN 0 - 1
    ELSE CASE s[2] = "0" -> 0 [] s[2] = "1" -> 1 [] s[2] = "2" -> 2
           [] s[2] = "3" -> 3 [] s[2] = "4" -> 4 [] s[2] = "5" -> 5
           [] s[2] = "6" -> 6 [] s[2] = "7" -> 7 [] s[2] = "8" -> 8
           [] s[2] = "9" -> 9 [] OTHER -> 0 - 1

validateAddress(address) ==
    IF address = <<>> THEN FALSE
    ELSE IF Len(address) >= 2 /\ address[1] = "0" /\ address[2] = "x"
      THEN ETH_ADDRESS(address)
    ELSE IF address[1] \notin {"f", "t"} THEN FALSE
    ELSE LET protocol == ProtocolDigit(address)
         IN  IF protocol < 0 \/ protocol > 4 THEN FALSE
             ELSE CASE protocol = 0 -> ID_ADDRESS(address)
                    [] protocol = 1 -> SECP256K1_ADDRESS(address)
                    [] protocol = 2 -> ACTOR_ADDRESS(address)
                    [] protocol = 3 -> BLS_ADDRESS(address)
                    [] OTHER -> Len(address) > 3

(***************************************************************************)
(* Operation handlers: actions/transaction (estimateGas), actions/utility  *)
(* (signData), actions/paymentChannel (create, getInfo)                    *)
(***************************************************************************)
\* Address parameters an item can carry.
ItemAddresses ==
    { <<"f", "0", "1", "2", "3", "4">>,
      <<"t", "4", "1", "0", "f", "a", "b">>,
      <<"i", "n", "v", "a", "l", "i", "d">>,
      <<"f", "0">>,
      <<"f", "9", "1">> }

\* Amount parameters an item can carry.
ItemAmounts ==
    { <<"1">>, <<"0", ".", "5">>, <<"-", "1">>, <<"z">> }

\* amount.toString() of an n8n number parameter.
ItemNumbers == { <<"1">>, <<"0", ".", "5">>, <<"-", "1">> }

\* The address the node's wallet answers WalletDefaultAddress with.
WalletAddress == <<"f", "0", "1", "0", "0">>

\* The items: an operation with its parameters.
Items ==
    [operation : {"estimateGas"}, fromAddress : ItemAddresses,
     toAddress : ItemAddresses, amount : ItemNumbers]
      \cup [operation : {"signData"}, signerAddress : ItemAddresses \cup {<<>>}]
      \cup [operation : {"create"}, recipient : ItemAddresses, amount : ItemAmounts]
      \cup [operation : {"getInfo"}, channelAddress : ItemAddresses]

InitHandler ==
    /\ \E item \in Items :
          /\ hOperation = item.operation
          /\ hParams = item
    /\ hPc = "start"
    /\ hLocal = <<>>
    /\ hRequests = <<>>
    /\ hError = <<>>
    /\ amount = <<>>
    /\ ConvIdle
    /\ RpcIdle
    /\ UtilIdle

\* await lotus.<method>(...): the request goes out and the handler waits.
Await(method, params) ==
    /\ hRequests' = Append(hRequests, [method |-> method, params |-> params])
    /\ hPc' = method
    /\ UNCHANGED hError

\* throw new Error(message)
Throw(message) ==
    /\ hPc' = "failed"
    /\ hError' = message
    /\ UNCHANGED hRequests

\* result = {...}; break
Finish ==
    /\ hPc' = "done"
    /\ UNCHANGED <<hRequests, hError>>

\* case 'estimateGas', up to its await.
EstimateGasStart ==
    /\ hOperation = "estimateGas" /\ hPc = "start"
    /\ LET value == filToAttoFil(hParams.amount)
       IN  IF value.threw THEN Throw(<<"BigNumber Error">>)
           ELSE Await("GasEstimateMessageGas",
                      <<hParams.toAddress, hParams.fromAddress, value.value>>)
    /\ UNCHANGED <<hOperation, hParams, hLocal, otherThanHandler>>

\* if (!validateAddress(address)) throw ...; await lotus.walletSign(...)
SignWith(address) ==
    IF ~validateAddress(address)
      THEN Throw(<<"Invalid signer address: ">> \o address)
    ELSE Await("WalletSign", <<address>>)

\* case 'signData', up to its first await.
SignDataStart ==
    /\ hOperation = "signData" /\ hPc = "start"
    /\ IF hParams.signerAddress # <<>>
         THEN SignWith(hParams.signerAddress) /\ hLocal' = hParams.signerAddress
       ELSE Await("WalletDefaultAddress", <<>>) /\ UNCHANGED hLocal
    /\ UNCHANGED <<hOperation, hParams, otherThanHandler>>

\* case 'create' of the payment channel, up to its first await.
PaychCreateStart ==
    /\ hOperation = "create" /\ hPc = "start"
    /\ IF ~validateAddress(hParams.recipient)
         THEN Throw(<<"Invalid recipient address: ">> \o hParams.recipient)
       ELSE Await("WalletDefaultAddress", <<>>)
    /\ UNCHANGED <<hOperation, hParams, hLocal, otherThanHandler>>

\* case 'getInfo' of the payment channel, up to its first await.
PaychGetInfoStart ==
    /\ hOperation = "getInfo" /\ hPc = "start"
    /\ IF ~validateAddress(hParams.channelAddress)
         THEN Throw(<<"Invalid channel address: ">> \o hParams.channelAddress)
       ELSE Await("ChainHead", <<>>)
    /\ UNCHANGED <<hOperation, hParams, hLocal, otherThanHandler>>

RpcMethods ==
    {"GasEstimateMessageGas", "WalletSign", "WalletDefaultAddress", "PaychGet",
     "ChainHead", "StateReadState"}

\* The awaited call() throws: nothing catches it and the handler fails.
RpcThrows ==
    /\ hPc \in RpcMethods
    /\ \E resp \in Responses :
          /\ CallOutcome(resp).kind = "thrown"
          /\ Throw(CallOutcome(resp).message)
    /\ UNCHANGED <<hOperation, hParams, hLocal, otherThanHandler>>

\* Reading a property of a result that is undefined.
TypeError == <<"Cannot read properties of undefined">>

\* The awaited call() returns and the handler runs to its next await, to its
\* result, or to the error it throws.
RpcReturns ==
    /\ hPc \in RpcMethods
    /\ \E resp \in Responses :
          LET outcome == CallOutcome(resp)
              defined == outcome.result # None
              address == IF defined THEN WalletAddress ELSE <<>>
          IN  /\ outcome.kind = "returned"
              /\ CASE hPc = "WalletDefaultAddress" /\ hOperation = "signData" ->
                        SignWith(address) /\ hLocal' = address
                   [] hPc = "WalletDefaultAddress" /\ hOperation = "create" ->
                        /\ hLocal' = address
                        /\ LET value == filToAttoFil(hParams.amount)
                           IN  IF value.threw THEN Throw(<<"BigNumber Error">>)
                               ELSE Await("PaychGet",
                                          <<address, hParams.recipient, value.value>>)
                   [] hPc = "ChainHead" ->
                        /\ UNCHANGED hLocal
                        /\ IF defined
                             THEN Await("StateReadState", <<hParams.channelAddress>>)
                           ELSE Throw(TypeError)
                   [] OTHER ->
                        /\ UNCHANGED hLocal
                        /\ IF defined THEN Finish ELSE Throw(TypeError)
    /\ UNCHANGED <<hOperation, hParams, otherThanHandler>>

NextHandler ==
    \/ EstimateGasStart
    \/ SignDataStart
    \/ PaychCreateStart
    \/ PaychGetInfoStart
    \/ RpcThrows
    \/ RpcReturns

SpecHandler == InitHandler /\ [][NextHandler]_vars

(***************************************************************************)
(* The converter's inputs                                                  *)
(***************************************************************************)
\* The longest run of zeros that opens a fraction.
MaxFracZeros == 19

Signs == {<<>>, <<"-">>}

IntParts == {<<>>, <<"0">>, <<"1">>, <<"0", "5">>, <<"2">> \o Zeros(6)}

FracTails == {<<>>, <<"1">>, <<"5", "0">>}

Fractions ==
    {<<>>} \cup {<<".">> \o Zeros(k) \o t : k \in 0..MaxFracZeros, t \in FracTails}

\* Strings that are no decimal number, or one only after trimming.
OddAmounts ==
    { <<"z">>, <<"1", "z">>, <<" ", "1">>, <<"1", " ">>, <<"1", " ", "5">>,
      <<"1", ".", "5", ".", "1">>, <<"1", "-">>, NaNString }

Amounts ==
    {sg \o ip \o fr : sg \in Signs, ip \in IntParts, fr \in Fractions}
      \cup OddAmounts

\* A denomination name as written, in lower case and in upper case.
Spellings(d) == {d, toLowerCase(d), toUpperCase(d)}

Separators == {<<>>, <<" ">>}

InitConv ==
    /\ amount \in Amounts
    /\ ConvIdle
    /\ RpcIdle
    /\ HandlerIdle
    /\ UtilIdle

CallFilToAttoFil ==
    /\ op = "input"
    /\ op' = "filToAttoFil"
    /\ out' = filToAttoFil(amount)
    /\ UNCHANGED <<amount, suffix, denom, from, to, back, otherThanConv>>

CallAttoFilToFil ==
    /\ op = "input"
    /\ op' = "attoFilToFil"
    /\ out' = attoFilToFil(amount)
    /\ UNCHANGED <<amount, suffix, denom, from, to, back, otherThanConv>>

CallConvertFilUnits ==
    /\ op = "input"
    /\ \E f \in FilDenomination, t \in FilDenomination :
          /\ from' = f
          /\ to' = t
          /\ out' = convertFilUnits(amount, f, t)
    /\ op' = "convertFilUnits"
    /\ UNCHANGED <<amount, suffix, denom, back, otherThanConv>>

\* parseFilInput on the amount followed by a denomination name, or by nothing.
CallParseFilInput ==
    /\ op = "input"
    /\ \E d \in FilDenomination \cup {<<>>}, sep \in Separators :
          \E w \in Spellings(d) :
             /\ denom' = d
             /\ suffix' = sep \o w
             /\ out' = parseFilInput(amount \o sep \o w)
    /\ op' = "parseFilInput"
    /\ UNCHANGED <<amount, from, to, back, otherThanConv>>

\* convertFilUnits(convertFilUnits(a, X, Y), Y, X)
CallConvertBack ==
    /\ op = "convertFilUnits"
    /\ ~out.threw
    /\ op' = "convertBack"
    /\ back' = convertFilUnits(out.value, to, from)
    /\ UNCHANGED <<amount, suffix, denom, from, to, out, otherThanConv>>

\* filToAttoFil(attoFilToFil(filToAttoFil(a)))
CallReconvert ==
    /\ op = "filToAttoFil"
    /\ ~out.threw
    /\ op' = "reconvert"
    /\ back' = LET fil == attoFilToFil(out.value)
               IN  IF fil.threw THEN Thrown ELSE filToAttoFil(fil.value)
    /\ UNCHANGED <<amount, suffix, denom, from, to, out, otherThanConv>>

NextConv ==
    \/ CallFilToAttoFil
    \/ CallAttoFilToFil
    \/ CallConvertFilUnits
    \/ CallParseFilInput
    \/ CallConvertBack
    \/ CallReconvert

SpecConv == InitConv /\ [][NextConv]_vars

(***************************************************************************)
(* Decimal notation, place by place: what a string of digits denotes       *)
(***************************************************************************)
Unsigned(str) == IF Len(str) > 0 /\ str[1] = "-" THEN Tail(str) ELSE str

DotOf(str) ==
    LET dots == {i \in 1..Len(str) : str[i] = "."}
    IN  IF dots = {} THEN Len(str) + 1 ELSE MinOf(dots)

\* The number of digits written after the decimal point.
FracLen(str) == IF DotOf(str) > Len(str) THEN 0 ELSE Len(str) - DotOf(str)

\* The digit an unsigned decimal string shows at the place 10^p.
DigitAt(str, p) ==
    LET i == IF p >= 0 THEN DotOf(str) - 1 - p ELSE DotOf(str) - p
    IN  IF i \in 1..Len(str) THEN str[i] ELSE "0"

\* Every place a string of the model can show a digit at, shifted or not.
Places == (0 - (MaxFracZeros + 45))..45

\* y = x * 10^k
ShiftedEq(y, x, k) == \A p \in Places : DigitAt(y, p + k) = DigitAt(x, p)

\* y and x show the same digits at every place 10^p, p >= q.
AgreeFrom(y, x, q) == \A p \in Places : p >= q => DigitAt(y, p) = DigitAt(x, p)

\* Normal notation without redundant digits: "0", "15", "0.5", "1.05".
Canonical(y) ==
    LET d == DotOf(y)
    IN  /\ isNumeric(y) /\ y[1] # "-"
        /\ d > 1
        /\ (d > 2 => y[1] # "0")
        /\ (d <= Len(y) => d < Len(y) /\ y[Len(y)] # "0")

\* The amount as the claims read it: the digits of a valid amount.
Written(a) == Unsigned(trim(a))

\* 10^k is the multiplier of denomination d.
PowerOf(d) == Len(Multiplier(d)) - 1

\* The place of one unit of the smaller of X and Y, counted in units of X.
FloorPlace(X, Y) == (IF PowerOf(X) < PowerOf(Y) THEN PowerOf(X) ELSE PowerOf(Y)) - PowerOf(X)

Converters == {"filToAttoFil", "attoFilToFil", "convertFilUnits"}

(***************************************************************************)
(* Claims about the converter                                              *)
(***************************************************************************)
\* C6: the converters reject a non-numeric amount and a negative amount with
\* a failure: for such an amount no converter returns a value.
C6_RejectsInvalidAmount ==
    (op \in Converters /\ ~isValidFilAmount(amount)) => out.threw

\* C7: FIL and attoFIL are related by exactly 10^18: for a non-negative
\* amount written with at most 18 fractional digits filToAttoFil returns the
\* amount times 10^18 as a whole number and attoFilToFil the amount divided by
\* 10^18, both in normal notation with every digit kept; the four values the
\* spec names come out as named.
C7_ExactPowerOfTen ==
    /\ (op = "filToAttoFil" /\ isValidFilAmount(amount) /\ FracLen(Written(amount)) <= 18)
          => /\ ~out.threw
             /\ IsDigits(out.value) /\ Canonical(out.value)
             /\ ShiftedEq(out.value, Written(amount), 18)
    /\ (op = "attoFilToFil" /\ isValidFilAmount(amount) /\ FracLen(Written(amount)) <= 18)
          => /\ ~out.threw
             /\ Canonical(out.value)
             /\ ShiftedEq(out.value, Written(amount), 0 - 18)
    /\ filToAttoFil(<<"1">>) = Returned(<<"1">> \o Zeros(18))
    /\ attoFilToFil(<<"5">> \o Zeros(17)) = Returned(<<"0", ".", "5">>)
    /\ attoFilToFil(<<"1">>) = Returned(<<"0", ".">> \o Zeros(17) \o <<"1">>)
    /\ attoFilToFil(<<"0">>) = Returned(<<"0">>)

C7_Witness ==
    /\ op = "filToAttoFil"
    /\ amount = <<"0", ".">> \o Zeros(17) \o <<"1">>
    /\ out = Returned(<<"1">>)

\* C8: conversion round-trips.  For a valid amount a and denominations X, Y,
\* convertFilUnits(convertFilUnits(a, X, Y), Y, X) shows the digits of a at
\* every place down to one unit of the smaller denomination, and is a exactly
\* when a is written with at most 18 fractional digits; and
\* filToAttoFil(attoFilToFil(filToAttoFil(a))) is filToAttoFil(a).
C8_RoundTrip ==
    /\ (op = "convertBack" /\ isValidFilAmount(amount))
          => /\ ~back.threw
             /\ isNumeric(back.value)
             /\ AgreeFrom(Unsigned(back.value), Written(amount), FloorPlace(from, to))
             /\ (FracLen(Written(amount)) <= 18
                   => ShiftedEq(Unsigned(back.value), Written(amount), 0))
    /\ (op = "reconvert" /\ isValidFilAmount(amount)) => back = out

C8_Witness ==
    /\ op = "convertBack"
    /\ from = attoFIL /\ to = FIL
    /\ amount = <<"1", ".", "5", "0">>
    /\ out = Returned(<<"0", ".">> \o Zeros(17) \o <<"1", "5">>)
    /\ back = Returned(<<"1", ".", "5">>)

\* C9: convertFilUnits never yields a fractional number of attoFIL: the
\* result, counted in the target denomination, is written with no more
\* fractional digits than that denomination has attoFIL places.
C9_NoFractionalAttoFil ==
    (op = "convertFilUnits" /\ isValidFilAmount(amount))
       => /\ ~out.threw
          /\ FracLen(out.value) <= PowerOf(to)

\* C10: parseFilInput resolves the suffix in any letter case and by the
\* longest matching name: the amount n followed by a spelling of denomination
\* D yields convertFilUnits(n, D, attoFIL), and for a nonzero valid n and D
\* other than FIL that is not what the FIL multiplier gives.
C10_LongestSuffix ==
    (op = "parseFilInput" /\ denom # <<>>)
       => /\ out = convertFilUnits(amount, denom, attoFIL)
          /\ (denom # FIL /\ isValidFilAmount(amount) /\ ~IsZero(BigNumber(amount).bn))
                => out # convertFilUnits(amount, FIL, attoFIL)

C10_Witness ==
    /\ op = "parseFilInput"
    /\ denom = microFIL
    /\ suffix = <<" ">> \o toUpperCase(microFIL)
    /\ amount = <<"1">>
    /\ out = Returned(<<"1">> \o Zeros(12))

(***************************************************************************)
(* Claims about LotusClient.call                                           *)
(***************************************************************************)
\* The POSTs call() c has sent.
PostsOf(c) == {k \in 1..Len(posts) : posts[k].call = c}

Finished(c) == callPc[c] \in {"returned", "thrown"}

\* The thrown message has text as one of its parts.
Contains(message, text) == \E i \in 1..Len(message) : message[i] = text

\* C1: on one client instance the k-th call() invoked sends request id k,
\* whatever the order in which the calls settle and whether they succeed or
\* fail: ids start at 1, grow by one per invocation, and none is sent twice.
C1_SequentialIds ==
    /\ requestId = Len(posts)
    /\ \A k \in 1..Len(posts) : posts[k].id = k
    /\ \A j, k \in 1..Len(posts) : j # k => posts[j].id # posts[k].id
    /\ \A c \in Calls :
          callPc[c] # "idle" => \E k \in 1..Len(posts) :
                                   posts[k].call = c /\ posts[k].id = callId[c]

C1_Witness ==
    /\ Len(posts) = 3
    /\ posts[1].call = 2 /\ callPc[2] = "thrown"
    /\ posts[2].call = 3 /\ callPc[3] = "pending"
    /\ posts[3] = [call |-> 1, id |-> 3] /\ callPc[1] = "returned"

\* C2: a call() answered with HTTP 200 and a body whose error field is
\* populated fails, returns no result, and its message contains the error's
\* message text.
C2_RpcErrorSurfaced ==
    \A c \in Calls :
       (Finished(c) /\ response[c].status = 200 /\ response[c].data.kind = "object"
          /\ response[c].data.error.present)
       => /\ callPc[c] = "thrown"
          /\ settled[c].kind = "thrown"
          /\ settled[c].result = None
          /\ Contains(settled[c].message, response[c].data.error.message)

C2_Witness ==
    \E c \in Calls :
       /\ response[c].status = 200
       /\ response[c].data.error = [present |-> TRUE, code |-> 1, message |-> "actor not found"]
       /\ settled[c] = Rejected(<<"Lotus RPC Error: ", "actor not found">>)

\* C3: every call() ends in exactly one of a returned result and a thrown
\* failure with a message.  No response, a non-2xx status and a populated
\* error field all end in the thrown failure; whenever the body carries an
\* RPC error the message is that error's message, also under a non-2xx
\* status; a result is returned only for a 2xx response without error.
C3_OneFailureChannel ==
    \A c \in Calls :
       /\ ~Finished(c) => settled[c] = Unsettled
       /\ Finished(c) =>
            /\ settled[c].kind = callPc[c]
            /\ (callPc[c] = "returned") =>
                  /\ settled[c].message = <<>>
                  /\ response[c].status = 200
                  /\ ~ErrorField(response[c].data).present
            /\ (callPc[c] = "thrown") =>
                  /\ settled[c].result = None
                  /\ settled[c].message # <<>>
                  /\ \A i \in 1..Len(settled[c].message) : settled[c].message[i] # ""
            /\ response[c].status # 200 => callPc[c] = "thrown"
            /\ ErrorField(response[c].data).present =>
                  /\ callPc[c] = "thrown"
                  /\ settled[c].message
                       = <<"Lotus RPC Error: ", response[c].data.error.message>>

C3_Witness ==
    \E c \in Calls :
       /\ response[c].status = 500
       /\ response[c].data.error.present
       /\ response[c].data.error.message = "method not found"
       /\ settled[c] = Rejected(<<"Lotus RPC Error: ", "method not found">>)

Malformed(item) ==
    CASE item.operation = "estimateGas" ->
           \/ ~validateAddress(item.fromAddress)
           \/ ~validateAddress(item.toAddress)
           \/ ~isValidFilAmount(item.amount)
      [] item.operation = "signData" ->
           item.signerAddress # <<>> /\ ~validateAddress(item.signerAddress)
      [] item.operation = "create" ->
           \/ ~validateAddress(item.recipient)
           \/ ~isValidFilAmount(item.amount)
      [] item.operation = "getInfo" ->
           ~validateAddress(item.channelAddress)
      [] OTHER -> FALSE

\* C5: when an address or amount parameter of the item is malformed the
\* handler fails without having issued any RPC request: it never finishes
\* and no request precedes the failure.
C5_ValidatedBeforeNetwork ==
    (hOperation # "none" /\ Malformed(hParams))
       => /\ hRequests = <<>>
          /\ hPc # "done"

(***************************************************************************)
(* utils/cidUtils.ts: calculatePaddedPieceSize.  A bigint is kept as its   *)
(* decimal numeral, so that no width bounds it.                            *)
(***************************************************************************)
DigitValue(c) ==
    CASE c = "0" -> 0 [] c = "1" -> 1 [] c = "2" -> 2 [] c = "3" -> 3
      [] c = "4" -> 4 [] c = "5" -> 5 [] c = "6" -> 6 [] c = "7" -> 7
      [] c = "8" -> 8 [] OTHER -> 9

DigitChar(n) ==
    CASE n = 0 -> "0" [] n = 1 -> "1" [] n = 2 -> "2" [] n = 3 -> "3"
      [] n = 4 -> "4" [] n = 5 -> "5" [] n = 6 -> "6" [] n = 7 -> "7"
      [] n = 8 -> "8" [] OTHER -> "9"

\* Number.prototype.toString / BigInt(n) of a small non-negative integer.
RECURSIVE Decimal(_)
Decimal(n) ==
    IF n < 10 THEN <<DigitChar(n)>>
    ELSE Decimal(n \div 10) \o <<DigitChar(n % 10)>>

\* bigint a < b, both non-negative.
BigLess(a, b) ==
    \/ Len(a) < Len(b)
    \/ /\ Len(a) = Len(b)
       /\ \E i \in 1..Len(a) :
             /\ SubSeq(a, 1, i - 1) = SubSeq(b, 1, i - 1)
             /\ DigitValue(a[i]) < DigitValue(b[i])

\* bigint x * 2n + carry
RECURSIVE TimesTwo(_, _)
TimesTwo(x, carry) ==
    IF x = <<>> THEN IF carry = 0 THEN <<>> ELSE <<DigitChar(carry)>>
    ELSE LET d == 2 * DigitValue(x[Len(x)]) + carry
         IN  TimesTwo(SubSeq(x, 1, Len(x) - 1), d \div 10) \o <<DigitChar(d % 10)>>

\* size *= 2n
BigDouble(x) == IF x = <<"0">> THEN x ELSE TimesTwo(x, 0)

MinPieceSize == <<"2", "5", "6">>

\* dataSize <= 0n, for the non-negative sizes the handlers pass
NotPositive(x) == x = <<"0">>

\* A loop guard that also admits size = dataSize.
LoopConditionInclusive(s, d) == ~BigLess(d, s)

\* while (size < dataSize)
LoopCondition(s, d) == BigLess(s, d)

\* A return statement without the minimum.
ClampNone(s) == s

\* return size < 256n ? 256n : size
ClampToMinimum(s) == IF BigLess(s, MinPieceSize) THEN MinPieceSize ELSE s

\* The sizes given: every size up to MaxSmallSize, and the sizes around
\* each power of two up to 2^MaxExponent (2^36 bytes is 64 GiB).
MaxSmallSize == 300

MaxExponent == 36

RECURSIVE TwoToThe(_)
TwoToThe(k) == IF k = 0 THEN <<"1">> ELSE BigDouble(TwoToThe(k - 1))

\* x - 1n for x > 0
RECURSIVE BigPredecessor(_)
BigPredecessor(x) ==
    LET last == x[Len(x)]
        init == SubSeq(x, 1, Len(x) - 1)
    IN  IF last = "0" THEN BigPredecessor(init) \o <<"9">>
        ELSE init \o <<DigitChar(DigitValue(last) - 1)>>

PieceInputs ==
    {Decimal(n) : n \in 0..MaxSmallSize}
      \cup {TwoToThe(k) : k \in 0..MaxExponent}
      \cup {IncDigits(TwoToThe(k)) : k \in 0..MaxExponent}
      \cup {StripLeadingZeros(BigPredecessor(TwoToThe(k))) : k \in 1..MaxExponent}

InitPiece ==
    /\ dataSize \in PieceInputs
    /\ size = <<>>
    /\ piecePc = "input"
    /\ paddedSize = <<>>
    /\ amount = <<>>
    /\ ConvIdle
    /\ RpcIdle
    /\ HandlerIdle
    /\ AddrIdle
    /\ CidIdle
    /\ DealIdle
    /\ FanIdle
    /\ NodeIdle

\* if (dataSize <= 0n) return 256n
ReturnMinimum ==
    /\ piecePc = "input"
    /\ NotPositive(dataSize)
    /\ paddedSize' = MinPieceSize
    /\ piecePc' = "done"
    /\ UNCHANGED <<dataSize, size, otherThanPiece>>

\* let size = 1n
EnterLoop ==
    /\ piecePc = "input"
    /\ ~NotPositive(dataSize)
    /\ size' = <<"1">>
    /\ piecePc' = "loop"
    /\ UNCHANGED <<dataSize, paddedSize, otherThanPiece>>

\* one iteration of the while loop
LoopBody ==
    /\ piecePc = "loop"
    /\ LoopCondition(size, dataSize)
    /\ size' = BigDouble(size)
    /\ UNCHANGED <<dataSize, piecePc, paddedSize, otherThanPiece>>

\* the loop left, and the clamped size returned
ReturnPadded ==
    /\ piecePc = "loop"
    /\ ~LoopCondition(size, dataSize)
    /\ paddedSize' = ClampToMinimum(size)
    /\ piecePc' = "done"
    /\ UNCHANGED <<dataSize, size, otherThanPiece>>

NextPiece ==
    \/ ReturnMinimum
    \/ EnterLoop
    \/ LoopBody
    \/ ReturnPadded

\* The function runs to its end once called: nothing else is scheduled.
SpecPiece == InitPiece /\ [][NextPiece]_vars /\ WF_vars(NextPiece)

(***************************************************************************)
(* Claims about calculatePaddedPieceSize                                   *)
(***************************************************************************)
\* x / 2n by long division, independently of the doubling above.
RECURSIVE HalfDigits(_, _)
HalfDigits(x, rem) ==
    IF x = <<>> THEN <<>>
    ELSE LET d == 10 * rem + DigitValue(x[1])
         IN  <<DigitChar(d \div 2)>> \o HalfDigits(Tail(x), d % 2)

BigHalf(x) == StripLeadingZeros(HalfDigits(x, 0))

IsEven(x) == DigitValue(x[Len(x)]) % 2 = 0

RECURSIVE IsPowerOfTwo(_)
IsPowerOfTwo(x) ==
    \/ x = <<"1">>
    \/ /\ x # <<"0">>
       /\ IsEven(x)
       /\ IsPowerOfTwo(BigHalf(x))

PieceDone == piecePc = "done"

PieceExample(n, r) == dataSize = Decimal(n) => paddedSize = Decimal(r)

\* What a finished call returned: the smallest power of two that is >=
\* dataSize and >= 256, with the three values the specification lists.
SmallestPowerOfTwo ==
    PieceDone =>
       /\ IsPowerOfTwo(paddedSize)
       /\ ~BigLess(paddedSize, dataSize)
       /\ ~BigLess(paddedSize, MinPieceSize)
       /\ \/ paddedSize = MinPieceSize
          \/ BigLess(BigHalf(paddedSize), dataSize)
       /\ PieceExample(0, 256)
       /\ PieceExample(256, 256)
       /\ PieceExample(257, 512)

\* C11: calculatePaddedPieceSize(n) terminates for every n >= 0 and returns
\* the smallest power of two >= n that is not below 256 (256 for 0 and for
\* 256, 512 for 257), exactly, for sizes up to 64 GiB and beyond.
C11_SmallestPowerOfTwo == []SmallestPowerOfTwo /\ <>PieceDone

\* 64 GiB + 1 is padded to 128 GiB.
C11_Witness ==
    /\ PieceDone
    /\ dataSize = <<"6", "8", "7", "1", "9", "4", "7", "6", "7", "3", "7">>
    /\ paddedSize = <<"1", "3", "7", "4", "3", "8", "9", "5", "3", "4", "7", "2">>

\* padded >= n, padded < 2n, and padded = n when n is a power of two.
WithinFactorTwo ==
    /\ IsPowerOfTwo(paddedSize)
    /\ ~BigLess(paddedSize, dataSize)
    /\ BigLess(paddedSize, BigDouble(dataSize))
    /\ IsPowerOfTwo(dataSize) => paddedSize = dataSize

\* C12, as stated: for every raw size n the result is a power of two >= n
\* and < 2n, equal to n when n is a power of two.  The sizes up to 128 are
\* padded to 256, which is 2n or more.
C12_WithinFactorTwo == PieceDone => WithinFactorTwo

\* C12, as the code has it: the bound holds for every n > 128, and every
\* n <= 128 is padded to the 256-byte minimum.
C12_WithinFactorTwoAboveMinimum ==
    PieceDone =>
       IF BigLess(Decimal(128), dataSize)
         THEN WithinFactorTwo
         ELSE paddedSize = MinPieceSize

\* 64 GiB, a power of two, is its own padded size.
C12_Witness ==
    /\ PieceDone
    /\ dataSize = <<"6", "8", "7", "1", "9", "4", "7", "6", "7", "3", "6">>
    /\ paddedSize = dataSize

(***************************************************************************)
(* constants/addresses.ts and utils/addressUtils.ts: classification and    *)
(* the Ethereum / delegated address converters                             *)
(***************************************************************************)
\* String.prototype.slice(n)
slice(s, n) == SubSeq(s, n + 1, Len(s))

\* ADDRESS_PATTERNS.DELEGATED_ADDRESS = /^[ft]4[0-9]+f[a-z2-7]+$/
DELEGATED_ADDRESS(s) ==
    /\ Len(s) >= 5
    /\ s[1] \in {"f", "t"} /\ s[2] = "4"
    /\ \E k \in 3..(Len(s) - 2) :
          /\ AllIn(s, 3, k, Digits)
          /\ s[k + 1] = "f"
          /\ AllIn(s, k + 2, Len(s), Base32Chars)

\* getAddressType: the protocol number, or -1 for null.
getAddressType(a) ==
    IF a = <<>> \/ Len(a) < 2 THEN 0 - 1
    ELSE IF a[1] \notin {"f", "t"} THEN 0 - 1
    ELSE LET protocol == ProtocolDigit(a)
         IN  IF protocol < 0 \/ protocol > 4 THEN 0 - 1 ELSE protocol

getAddressTypeName(a) ==
    LET type == getAddressType(a)
    IN  CASE type = 0 -> "ID"
          [] type = 1 -> "Secp256k1"
          [] type = 2 -> "Actor"
          [] type = 3 -> "BLS"
          [] type = 4 -> "Delegated (FEVM)"
          [] OTHER -> "Unknown"

\* A test that takes every classified address for robust.
isRobustAddressNotNull(a) == getAddressType(a) # 0 - 1

isRobustAddress(a) ==
    LET type == getAddressType(a)
    IN  type # 0 - 1 /\ type # 0

\* /^[ft]410f[a-f0-9]{40}$/i: the i flag lets every letter match in
\* either case, the prefix and the namespace's f included.
EamPattern(s) ==
    /\ Len(s) = 45
    /\ toLowerCase(SubSeq(s, 1, 5)) \in
          {<<"f", "4", "1", "0", "f">>, <<"t", "4", "1", "0", "f">>}
    /\ AllIn(s, 6, 45, HexChars)

\* A converter that keeps the letter case it was given.
ethAddressToFilecoinKeepingCase(ethAddress, isTestnet) ==
    IF ~ETH_ADDRESS(ethAddress)
      THEN JsThrown(<<"Invalid Ethereum address">>)
    ELSE JsString(<<IF isTestnet THEN "t" ELSE "f", "4", "1", "0", "f">>
                    \o slice(ethAddress, 2))

ethAddressToFilecoin(ethAddress, isTestnet) ==
    IF ~ETH_ADDRESS(ethAddress)
      THEN JsThrown(<<"Invalid Ethereum address">>)
    ELSE JsString(<<IF isTestnet THEN "t" ELSE "f", "4", "1", "0", "f">>
                    \o slice(toLowerCase(ethAddress), 2))

\* A converter that answers every delegated address.
filecoinToEthAddressAnyNamespace(f4Address) ==
    IF ~(Len(f4Address) > 5 /\ f4Address[2] = "4") THEN JsNull
    ELSE JsString(<<"0", "x">> \o slice(f4Address, 5))

filecoinToEthAddress(f4Address) ==
    IF ~EamPattern(f4Address) THEN JsNull
    ELSE JsString(<<"0", "x">> \o slice(f4Address, 5))

\* isValid, type and isRobust as the validateAddress operation reports them
\* for a valid address: kind "class", the type's number (-1 for null) and
\* name, and isRobust.
Classified(a) ==
    JsValue("class", isRobustAddress(a), getAddressType(a),
            <<getAddressTypeName(a)>>)

\* The addresses given.  A payload of n characters repeats a pattern.
Repeat(pattern, n) == [i \in 1..n |-> pattern[((i - 1) % Len(pattern)) + 1]]

Base32Body(n) == Repeat(<<"a", "b", "j", "x", "2", "7", "z">>, n)

HexBodies ==
    { Repeat(<<"a">>, 40),
      Repeat(<<"0", "1", "9", "a", "f", "c">>, 40),
      Repeat(<<"A", "b", "C", "d", "E", "F", "0", "7">>, 40),
      Repeat(<<"D", "E", "A", "D", "B", "E", "E", "F">>, 40),
      Repeat(<<"a", "g">>, 40),
      Repeat(<<"a", "B">>, 39),
      Repeat(<<"a", "B">>, 41) }

PayloadLengths == {1, 2, 37, 38, 39, 40, 83, 84, 85, 86, 87}

Networks == {"f", "t", "F", "x"}

AddressInputs ==
    { <<>>, <<"f">>, <<"f", "0">>, <<"i", "n", "v", "a", "l", "i", "d">>,
      <<"f", "0", "1", "2", "3", "4">>, <<"t", "0", "7">>,
      <<"f", "0", "1", "a">>, <<"f", "5", "a", "b", "c">>,
      <<"f", "4", "1">>, <<"f", "4", "a", "b">>, <<"t", "4", "!", "!">>,
      <<"f", "4", "1", "0", "f">>,
      <<"f", "4", "1", "1", "f", "a", "b", "c">> }
      \cup {<<n, p>> \o Base32Body(k) :
              n \in Networks, p \in {"1", "2", "3"}, k \in PayloadLengths}
      \cup {<<"f", "1">> \o Base32Body(38) \o <<c>> : c \in {"1", "A", "-"}}
      \cup {<<n, "4", "1", "0", f>> \o h :
              n \in {"f", "t", "F", "T"}, f \in {"f", "F"}, h \in HexBodies}
      \cup {<<"f", "4", "1", "1", "f">> \o Repeat(<<"a">>, 40)}
      \cup {<<"0", x>> \o h : x \in {"x", "X"}, h \in HexBodies}

InitAddr ==
    /\ addrIn \in AddressInputs
    /\ testnet = FALSE
    /\ addrFn = "input"
    /\ addrOut = JsNone
    /\ addrBack = JsNone
    /\ amount = <<>>
    /\ ConvIdle
    /\ RpcIdle
    /\ HandlerIdle
    /\ PieceIdle
    /\ CidIdle
    /\ DealIdle
    /\ FanIdle
    /\ NodeIdle

CallValidateAddress ==
    /\ addrFn = "input"
    /\ addrFn' = "validateAddress"
    /\ addrOut' = JsBoolean(validateAddress(addrIn))
    /\ UNCHANGED <<addrIn, testnet, addrBack, otherThanAddr>>

\* getAddressType, getAddressTypeName and isRobustAddress on one address
CallClassify ==
    /\ addrFn = "input"
    /\ addrFn' = "classify"
    /\ addrOut' = Classified(addrIn)
    /\ UNCHANGED <<addrIn, testnet, addrBack, otherThanAddr>>

CallEthAddressToFilecoin ==
    /\ addrFn = "input"
    /\ \E t \in BOOLEAN :
          /\ testnet' = t
          /\ addrOut' = ethAddressToFilecoin(addrIn, t)
    /\ addrFn' = "ethAddressToFilecoin"
    /\ UNCHANGED <<addrIn, addrBack, otherThanAddr>>

CallFilecoinToEthAddress ==
    /\ addrFn = "input"
    /\ addrFn' = "filecoinToEthAddress"
    /\ addrOut' = filecoinToEthAddress(addrIn)
    /\ UNCHANGED <<addrIn, testnet, addrBack, otherThanAddr>>

\* filecoinToEthAddress(ethAddressToFilecoin(e, testnet))
CallConvertAddressBack ==
    /\ addrFn = "ethAddressToFilecoin"
    /\ addrOut.kind = "string"
    /\ addrFn' = "roundTrip"
    /\ addrBack' = filecoinToEthAddress(addrOut.str)
    /\ UNCHANGED <<addrIn, testnet, addrOut, otherThanAddr>>

NextAddr ==
    \/ CallValidateAddress
    \/ CallClassify
    \/ CallEthAddressToFilecoin
    \/ CallFilecoinToEthAddress
    \/ CallConvertAddressBack

SpecAddr == InitAddr /\ [][NextAddr]_vars

(***************************************************************************)
(* Claims about the address utilities                                      *)
(***************************************************************************)
\* The pattern of the protocol a string announces: each pattern fixes its
\* own prefix and protocol digit, so at most one of them applies.
MatchesProtocolPattern(s) ==
    \/ ID_ADDRESS(s)
    \/ SECP256K1_ADDRESS(s)
    \/ ACTOR_ADDRESS(s)
    \/ BLS_ADDRESS(s)
    \/ DELEGATED_ADDRESS(s)
    \/ ETH_ADDRESS(s)

\* C13: validateAddress(s) is true if and only if s matches the exact
\* pattern of its protocol (ID, Secp256k1, Actor, BLS, Delegated, Ethereum);
\* every other string is rejected.  The code accepts every [ft]4 string of
\* four characters or more.
C13_ExactPatterns ==
    addrFn = "validateAddress" =>
       (addrOut.bool <=> MatchesProtocolPattern(addrIn))

Secp256k1Example == <<"f", "1">> \o Base32Body(39)

IdExample == <<"f", "0", "1", "2", "3", "4">>

VariantNames ==
    <<"ID", "Secp256k1", "Actor", "BLS", "Delegated (FEVM)">>

\* The classification is the variant the protocol digit names, robust
\* exactly when not ID.
ClassifiedByDigit ==
    /\ addrOut.num \in 0..4
    /\ addrOut.num = ProtocolDigit(addrIn)
    /\ addrOut.str = <<VariantNames[addrOut.num + 1]>>
    /\ addrOut.bool <=> addrOut.num # 0

ClassifyExamples ==
    /\ addrIn = IdExample => addrOut.num = 0 /\ ~addrOut.bool
    /\ addrIn = Secp256k1Example => addrOut.num = 1 /\ addrOut.bool

\* C14, as stated: every address validateAddress accepts is classified as
\* its protocol variant and is robust exactly when that variant is not ID.
\* An accepted Ethereum address has no variant.
C14_ClassifiedAccepted ==
    (addrFn = "classify" /\ validateAddress(addrIn)) =>
       ClassifiedByDigit /\ ClassifyExamples

\* C14, as the code has it: every accepted address with an f or t prefix is
\* classified as its variant and is robust exactly when not ID; an accepted
\* Ethereum address is classified as null ("Unknown") and is not robust.
C14_ClassifiedAcceptedFilecoin ==
    (addrFn = "classify" /\ validateAddress(addrIn)) =>
       IF addrIn[1] \in {"f", "t"}
         THEN ClassifiedByDigit /\ ClassifyExamples
         ELSE /\ ETH_ADDRESS(addrIn)
              /\ addrOut.num = 0 - 1
              /\ addrOut.str = <<"Unknown">>
              /\ ~addrOut.bool

C14_Witness ==
    /\ addrFn = "classify"
    /\ addrIn = Secp256k1Example
    /\ validateAddress(addrIn)
    /\ addrOut.num = 1
    /\ addrOut.bool

\* C15: for every well-formed Ethereum address e (0x and 40 hex characters
\* in any letter case) and either network flag, ethAddressToFilecoin
\* succeeds and filecoinToEthAddress of its result is e lower-cased.
C15_EthRoundTrip ==
    /\ (addrFn = "ethAddressToFilecoin" /\ ETH_ADDRESS(addrIn))
          => addrOut.kind = "string"
    /\ addrFn = "roundTrip" => addrBack = JsString(toLowerCase(addrIn))

C15_Witness ==
    /\ addrFn = "roundTrip"
    /\ testnet
    /\ addrIn = <<"0", "x">> \o Repeat(<<"D", "E", "A", "D", "B", "E", "E", "F">>, 40)
    /\ addrBack.str = <<"0", "x">> \o Repeat(<<"d", "e", "a", "d", "b", "e", "e", "f">>, 40)

\* [ft]410f and 40 hex characters, the prefix as an address writes it.
EamShape(s) ==
    /\ Len(s) = 45
    /\ s[1] \in {"f", "t"}
    /\ SubSeq(s, 2, 5) = <<"4", "1", "0", "f">>
    /\ \A i \in 6..45 : s[i] \in HexChars

\* The same, in any letter case.
EamShapeAnyCase(s) ==
    /\ Len(s) = 45
    /\ s[1] \in {"f", "t", "F", "T"}
    /\ SubSeq(s, 2, 4) = <<"4", "1", "0">>
    /\ s[5] \in {"f", "F"}
    /\ \A i \in 6..45 : s[i] \in HexChars

FailureModes(Eam(_)) ==
    /\ addrFn = "ethAddressToFilecoin" =>
          (addrOut.kind = "thrown" <=> ~ETH_ADDRESS(addrIn))
    /\ addrFn = "filecoinToEthAddress" =>
          /\ addrOut.kind \in {"null", "string"}
          /\ addrOut.kind = "null" <=> ~Eam(addrIn)

\* C16, as stated: ethAddressToFilecoin fails exactly when its input is not
\* 0x and 40 hex characters; filecoinToEthAddress never fails and returns
\* null exactly when its input is not [ft]410f and 40 hex characters.  The
\* code also converts F410f..., T410F... and f410F...
C16_FailureModes == FailureModes(EamShape)

\* C16, as the code has it: the EAM pattern is matched in any letter case,
\* the network prefix and the namespace's f included.
C16_FailureModesAnyCase == FailureModes(EamShapeAnyCase)

\* A well-formed delegated address of namespace 11 has no Ethereum form.
C16_Witness ==
    /\ addrFn = "filecoinToEthAddress"
    /\ addrIn = <<"f", "4", "1", "1", "f">> \o Repeat(<<"a">>, 40)
    /\ validateAddress(addrIn)
    /\ addrOut = JsNull

(***************************************************************************)
(* utils/cidUtils.ts: validateCid, getCidVersion, parseCid                 *)
(***************************************************************************)
UpperLetters ==
    {"A", "B", "C", "D", "E", "F", "G", "H", "I", "J", "K", "L", "M",
     "N", "O", "P", "Q", "R", "S", "T", "U", "V", "W", "X", "Y", "Z"}

\* [1-9A-HJ-NP-Za-km-z]
Base58Chars ==
    ((Digits \cup UpperLetters) \cup LowerLetters) \ {"0", "I", "O", "l"}

\* [a-zA-Z0-9]
AlphaNumeric == (Digits \cup UpperLetters) \cup LowerLetters

\* String.prototype.startsWith
startsWith(s, t) == Len(t) <= Len(s) /\ SubSeq(s, 1, Len(t)) = t

\* CID_V0_PATTERN = /^Qm[1-9A-HJ-NP-Za-km-z]{44}$/
CID_V0_PATTERN(s) ==
    /\ Len(s) = 46
    /\ startsWith(s, <<"Q", "m">>)
    /\ AllIn(s, 3, 46, Base58Chars)

\* CID_V1_PATTERN = /^b[a-z2-7]{58,}$/
CID_V1_PATTERN(s) ==
    /\ Len(s) >= 59
    /\ startsWith(s, <<"b">>)
    /\ AllIn(s, 2, Len(s), Base32Chars)

\* CID_BASE32_PATTERN = /^ba[a-z2-7]+$/
CID_BASE32_PATTERN(s) ==
    /\ Len(s) >= 3
    /\ startsWith(s, <<"b", "a">>)
    /\ AllIn(s, 3, Len(s), Base32Chars)

validateCid(cid) ==
    IF cid = <<>> THEN FALSE
    ELSE IF startsWith(cid, <<"Q", "m">>) THEN CID_V0_PATTERN(cid)
    ELSE IF startsWith(cid, <<"b">>) THEN Len(cid) >= 59
    ELSE IF startsWith(cid, <<"b", "a">>) THEN CID_BASE32_PATTERN(cid)
    ELSE FALSE

\* getCidVersion: CID_VERSIONS.V0, CID_VERSIONS.V1, or -1 for null
getCidVersion(cid) ==
    IF cid = <<>> THEN 0 - 1
    ELSE IF startsWith(cid, <<"Q", "m">>) THEN 0
    ELSE IF \/ startsWith(cid, <<"b">>)
            \/ startsWith(cid, <<"z">>)
            \/ startsWith(cid, <<"f">>) THEN 1
    ELSE 0 - 1

IpfsMarker == <<"/", "i", "p", "f", "s", "/">>

DwebLink == <<"d", "w", "e", "b", ".", "l", "i", "n", "k">>

\* Where t occurs in s
Occurrences(s, t) ==
    {i \in 1..(Len(s) - Len(t) + 1) : SubSeq(s, i, i + Len(t) - 1) = t}

\* s.split(t), its last element
LastPart(s, t) ==
    LET at == Occurrences(s, t)
    IN  IF at = {} THEN s ELSE SubSeq(s, MaxOf(at) + Len(t), Len(s))

\* s.split(t)[0]
FirstPart(s, t) ==
    LET at == Occurrences(s, t)
    IN  IF at = {} THEN s ELSE SubSeq(s, 1, MinOf(at) - 1)

\* The longest run of characters of chars that s starts with
RunOf(s, chars) ==
    LET stop == {i \in 1..Len(s) : s[i] \notin chars}
    IN  IF stop = {} THEN s ELSE SubSeq(s, 1, MinOf(stop) - 1)

\* trimmed.match(/\/ipfs\/([a-zA-Z0-9]+)/): the leftmost marker that an
\* alphanumeric character follows, and the run it captures; null otherwise
IpfsMatch(s) ==
    LET at == {i \in Occurrences(s, IpfsMarker) :
                  /\ i + Len(IpfsMarker) <= Len(s)
                  /\ s[i + Len(IpfsMarker)] \in AlphaNumeric}
    IN  IF at = {} THEN [found |-> FALSE, group |-> <<>>]
        ELSE [found |-> TRUE,
              group |-> RunOf(SubSeq(s, MinOf(at) + Len(IpfsMarker), Len(s)),
                              AlphaNumeric)]

\* cid = match[1] with no test of match
GroupUnguarded(match, cid) ==
    IF match.found THEN CidResult(match.group, FALSE, 0)
    ELSE CidThrown

\* if (match) cid = match[1]
GroupIfMatched(match, cid) ==
    IF match.found THEN CidResult(match.group, FALSE, 0)
    ELSE CidResult(cid, FALSE, 0)

parseCid(input) ==
    LET trimmed == trim(input)
        fromUrl == IF includes(trimmed, IpfsMarker)
                     THEN FirstPart(LastPart(trimmed, IpfsMarker), <<"/">>)
                     ELSE trimmed
        extracted == IF includes(trimmed, DwebLink)
                       THEN GroupIfMatched(IpfsMatch(trimmed), fromUrl)
                       ELSE CidResult(fromUrl, FALSE, 0)
    IN  IF extracted.threw THEN CidThrown
        ELSE CidResult(extracted.cid, validateCid(extracted.cid),
                       getCidVersion(extracted.cid))

\* The strings given: CIDs and near-CIDs, bare or inside a URL.
CidV0Body(n) == Repeat(<<"Y", "w", "A", "P", "J", "z", "v", "5", "C">>, n)

CidSegments ==
    { <<>>, <<"i", "n", "v", "a", "l", "i", "d">>, <<"b", "a", "a">>,
      <<"Q", "m">> \o CidV0Body(44),
      <<"Q", "m">> \o CidV0Body(43),
      <<"Q", "m">> \o CidV0Body(45),
      <<"Q", "m">> \o CidV0Body(43) \o <<"0">>,
      <<"Q", "m">> \o CidV0Body(43) \o <<"l">>,
      <<"Q", "m">> \o CidV0Body(44) \o <<"-", "x">>,
      <<"b">> \o Base32Body(58),
      <<"b">> \o Base32Body(57),
      <<"b">> \o Base32Body(70),
      <<"b">> \o Base32Body(57) \o <<"1">>,
      <<"b">> \o Base32Body(57) \o <<"A">>,
      <<"b">> \o Base32Body(57) \o <<"?">>,
      <<"z">> \o Base32Body(58),
      <<"f">> \o Base32Body(58) }

UrlPrefixes ==
    { <<"g", "w", ".", "i", "o">>,
      <<" ", "h", "t", "t", "p", "s", ":", "/", "/">> \o DwebLink }

UrlTails ==
    { <<>>, <<"/">>, <<"/", "a", ".", "t", "x", "t">>,
      IpfsMarker \o <<"x">> }

CidInputs ==
    CidSegments
      \cup {<<" ">> \o c \o <<" ">> : c \in CidSegments}
      \cup {p \o m \o c \o t :
              p \in UrlPrefixes, m \in {IpfsMarker, <<"/">>},
              c \in CidSegments, t \in UrlTails}

InitCid ==
    /\ cidInput \in CidInputs
    /\ cidFn = "input"
    /\ cidOut = CidResult(<<>>, FALSE, 0 - 1)
    /\ amount = <<>>
    /\ ConvIdle
    /\ RpcIdle
    /\ HandlerIdle
    /\ PieceIdle
    /\ AddrIdle
    /\ DealIdle
    /\ FanIdle
    /\ NodeIdle

\* validateCid and getCidVersion on one string
CallValidateCid ==
    /\ cidFn = "input"
    /\ cidFn' = "validateCid"
    /\ cidOut' = CidResult(cidInput, validateCid(cidInput), getCidVersion(cidInput))
    /\ UNCHANGED <<cidInput, otherThanCid>>

CallParseCid ==
    /\ cidFn = "input"
    /\ cidFn' = "parseCid"
    /\ cidOut' = parseCid(cidInput)
    /\ UNCHANGED <<cidInput, otherThanCid>>

NextCid ==
    \/ CallValidateCid
    \/ CallParseCid

SpecCid == InitCid /\ [][NextCid]_vars

(***************************************************************************)
(* Claims about the CID utilities                                          *)
(***************************************************************************)
\* C17: validateCid(c) is true only for a version-0 CID (Qm and exactly 44
\* base58 characters) or a version-1 CID (b and at least 58 base32
\* characters), and then getCidVersion(c) is that version.  The code takes
\* every string of 59 characters or more that starts with b.
C17_OnlyWellFormedCids ==
    (cidFn = "validateCid" /\ cidOut.valid) =>
       \/ CID_V0_PATTERN(cidInput) /\ cidOut.version = 0
       \/ CID_V1_PATTERN(cidInput) /\ cidOut.version = 1

\* The path segment that follows the first /ipfs/ marker.
MarkerCount(s) == Cardinality(Occurrences(s, IpfsMarker))

Segment(s) ==
    LET start == MinOf(Occurrences(s, IpfsMarker)) + Len(IpfsMarker)
        rest  == SubSeq(s, start, Len(s))
        slash == {i \in 1..Len(rest) : rest[i] = "/"}
    IN  IF slash = {} THEN rest ELSE SubSeq(rest, 1, MinOf(slash) - 1)

GatewayShaped(s) == MarkerCount(s) >= 1

ReportsItsCid ==
    /\ ~cidOut.threw
    /\ cidOut.valid = validateCid(cidOut.cid)
    /\ cidOut.version = getCidVersion(cidOut.cid)

RECURSIVE TimesNumber(_, _, _)
TimesNumber(a, n, carry) ==
    IF a = <<>> THEN IF carry = 0 THEN <<>> ELSE Decimal(carry)
    ELSE LET x == n * DigitValue(a[Len(a)]) + carry
         IN  TimesNumber(SubSeq(a, 1, Len(a) - 1), n, x \div 10)
               \o <<DigitChar(x % 10)>>

\* bigint a * b, b the bigint of a non-negative number
BigTimes(a, n) == StripLeadingZeros(TimesNumber(a, n, 0))

\* BigInt(s) of a decimal string
BigIntOfString(str) == StripLeadingZeros(str)

\* A duration that counts the end epoch in.
DurationInclusive(p) == p.EndEpoch - p.StartEpoch + 1

\* deal.Proposal.EndEpoch - deal.Proposal.StartEpoch
Duration(p) == p.EndEpoch - p.StartEpoch

\* BigInt(deal.Proposal.StoragePricePerEpoch) * BigInt(durationEpochs)
TotalCost(p, epochs) ==
    BigTimes(BigIntOfString(p.StoragePricePerEpoch), epochs)

\* The deals the endpoint returns: a price in attoFIL of up to four
\* significant digits followed by zeros, and a span of epochs.
PriceDigits ==
    { <<"0">>, <<"1">>, <<"7">>, <<"9", "9", "9">>, <<"1", "0", "0", "0">>,
      <<"4", "1", "4", "1">> }

PriceZeros == {0, 3, 18, 30}

StartEpochs == {0, 100, 3000000}

DealDurations == {1, 180, 518400}

Deals ==
    { Proposal(IF d = <<"0">> THEN d ELSE d \o Zeros(z), st, st + n) :
        d \in PriceDigits, z \in PriceZeros, st \in StartEpochs,
        n \in DealDurations }

InitDeal ==
    /\ dealOp \in {"getDealProposal", "getDealById"}
    /\ dealPc = "start"
    /\ deal = NoDeal
    /\ durationEpochs = 0
    /\ totalCost = <<>>
    /\ amount = <<>>
    /\ ConvIdle
    /\ RpcIdle
    /\ HandlerIdle
    /\ PieceIdle
    /\ AddrIdle
    /\ CidIdle
    /\ FanIdle
    /\ NodeIdle

\* const deal = await lotus.stateMarketStorageDeal(dealId): the request
DealLookupStart ==
    /\ dealPc = "start"
    /\ dealPc' = "StateMarketStorageDeal"
    /\ UNCHANGED <<dealOp, deal, durationEpochs, totalCost, otherThanDeal>>

\* the call rejected: the handler throws what call() threw
DealLookupThrows ==
    /\ dealPc = "StateMarketStorageDeal"
    /\ dealPc' = "failed"
    /\ UNCHANGED <<dealOp, deal, durationEpochs, totalCost, otherThanDeal>>

\* the call resolved: durationEpochs and totalCost computed, result built
DealLookupReturns ==
    /\ dealPc = "StateMarketStorageDeal"
    /\ \E d \in Deals :
          /\ deal' = d
          /\ durationEpochs' = Duration(d)
          /\ totalCost' = TotalCost(d, Duration(d))
    /\ dealPc' = "done"
    /\ UNCHANGED <<dealOp, otherThanDeal>>

NextDeal ==
    \/ DealLookupStart
    \/ DealLookupThrows
    \/ DealLookupReturns

SpecDeal == InitDeal /\ [][NextDeal]_vars

(***************************************************************************)
(* Claims about the deal cost                                              *)
(***************************************************************************)
\* What a price string denotes: its significant digits, a number small
\* enough to multiply in machine integers, and its count of final zeros.
FinalZeros(str) ==
    LET nz == {i \in 1..Len(str) : str[i] # "0"}
    IN  IF nz = {} THEN 0 ELSE Len(str) - MaxOf(nz)

RECURSIVE NumberOf(_)
NumberOf(str) ==
    IF str = <<>> THEN 0
    ELSE 10 * NumberOf(SubSeq(str, 1, Len(str) - 1)) + DigitValue(str[Len(str)])

Significand(str) == NumberOf(SubSeq(str, 1, Len(str) - FinalZeros(str)))

\* price * epochs, the product of the significands followed by the zeros
ExactProduct(price, epochs) ==
    IF Significand(price) * epochs = 0 THEN <<"0">>
    ELSE Decimal(Significand(price) * epochs) \o Zeros(FinalZeros(price))

\* C19: the total storage cost reported equals storagePricePerEpoch *
\* (endEpoch - startEpoch) exactly for every price and epoch pair; 1000
\* attoFIL over epochs 100..518500 gives 518400000.
C19_ExactTotalCost ==
    dealPc = "done" =>
       /\ totalCost = ExactProduct(deal.StoragePricePerEpoch,
                                   deal.EndEpoch - deal.StartEpoch)
       /\ deal = Proposal(<<"1", "0", "0", "0">>, 100, 518500)
             => totalCost = <<"5", "1", "8", "4", "0", "0", "0", "0", "0">>

\* 4141 * 10^30 attoFIL per epoch over 518400 epochs
C19_Witness ==
    /\ dealPc = "done"
    /\ deal = Proposal(<<"4", "1", "4", "1">> \o Zeros(30), 3000000, 3518400)
    /\ totalCost = <<"2", "1", "4", "6", "6", "9", "4", "4">> \o Zeros(32)

(***************************************************************************)
(* Operations that join concurrent lookups with Promise.all:               *)
(* actions/wallet (getAddressInfo), actions/multisig (getBalance),         *)
(* actions/storageProvider (getProviderBalance, listProviders)             *)
(***************************************************************************)
\* The miners StateListMiners returns, after miners.slice(0, limit).
MaxMiners == 4

FanOperations ==
    {"getAddressInfo", "getBalance", "getProviderBalance", "listProviders"}

\* The lookup awaited before the legs are issued.
Before(o) ==
    CASE o = "getBalance" -> <<"ChainHead">>
      [] o = "listProviders" -> <<"StateListMiners">>
      [] OTHER -> <<>>

\* The legs given to Promise.all, for n miners listed.
Legs(o, n) ==
    CASE o = "getAddressInfo" -> <<"StateGetActor", "WalletBalance">>
      [] o = "getBalance" -> <<"MsigGetAvailableBalance", "MsigGetVested">>
      [] o = "getProviderBalance" ->
            <<"StateMinerAvailableBalance", "StateMarketBalance">>
      [] OTHER -> [i \in 1..n |-> "StateMinerPower"]

\* Whether each leg carries its own .catch(() => default) or try/catch.
LegCatches(o) == o \in {"getAddressInfo", "listProviders"}

\* The lookup awaited after the join.
After(o) ==
    CASE o = "getBalance" -> <<"WalletBalance">>
      [] OTHER -> <<>>

Pending(legs) == [i \in 1..Len(legs) |-> "pending"]

InitFan ==
    /\ fanOp \in FanOperations
    /\ fanPc = "start"
    /\ fanLegs = <<>>
    /\ fanRequests = <<>>
    /\ amount = <<>>
    /\ ConvIdle
    /\ RpcIdle
    /\ HandlerIdle
    /\ PieceIdle
    /\ AddrIdle
    /\ CidIdle
    /\ DealIdle
    /\ NodeIdle

\* The handler up to its first await: the lookup before the legs, or the
\* legs themselves, all requested before any of them settles.
FanStart ==
    /\ fanPc = "start"
    /\ IF Before(fanOp) # <<>>
         THEN /\ fanPc' = "before"
              /\ fanRequests' = Before(fanOp)
              /\ UNCHANGED fanLegs
         ELSE /\ fanPc' = "legs"
              /\ fanRequests' = Legs(fanOp, 0)
              /\ fanLegs' = Pending(Legs(fanOp, 0))
    /\ UNCHANGED <<fanOp, otherThanFan>>

BeforeThrows ==
    /\ fanPc = "before"
    /\ fanPc' = "failed"
    /\ UNCHANGED <<fanOp, fanLegs, fanRequests, otherThanFan>>

\* The first lookup resolved (StateListMiners with n miners kept): the legs
\* are requested.
BeforeReturns ==
    /\ fanPc = "before"
    /\ \E n \in 0..MaxMiners :
          /\ fanRequests' = fanRequests \o Legs(fanOp, n)
          /\ fanLegs' = Pending(Legs(fanOp, n))
    /\ fanPc' = "legs"
    /\ UNCHANGED <<fanOp, otherThanFan>>

LegReturns(i) ==
    /\ fanPc = "legs"
    /\ fanLegs[i] = "pending"
    /\ fanLegs' = [fanLegs EXCEPT ![i] = "fulfilled"]
    /\ UNCHANGED <<fanOp, fanPc, fanRequests, otherThanFan>>

\* The leg's call() rejected and its own catch put a default in its place.
LegThrowsCaught(i) ==
    /\ fanPc = "legs"
    /\ LegCatches(fanOp)
    /\ fanLegs[i] = "pending"
    /\ fanLegs' = [fanLegs EXCEPT ![i] = "caught"]
    /\ UNCHANGED <<fanOp, fanPc, fanRequests, otherThanFan>>

\* The leg's call() rejected: Promise.all rejects and the handler throws.
LegThrowsRejects(i) ==
    /\ fanPc = "legs"
    /\ ~LegCatches(fanOp)
    /\ fanLegs[i] = "pending"
    /\ fanLegs' = [fanLegs EXCEPT ![i] = "rejected"]
    /\ fanPc' = "failed"
    /\ UNCHANGED <<fanOp, fanRequests, otherThanFan>>

\* Promise.all resolved: the result is built, after one more lookup in
\* getBalance.
Join ==
    /\ fanPc = "legs"
    /\ \A i \in 1..Len(fanLegs) : fanLegs[i] \in {"fulfilled", "caught"}
    /\ IF After(fanOp) # <<>>
         THEN /\ fanPc' = "after"
              /\ fanRequests' = fanRequests \o After(fanOp)
         ELSE /\ fanPc' = "done"
              /\ UNCHANGED fanRequests
    /\ UNCHANGED <<fanOp, fanLegs, otherThanFan>>

AfterThrows ==
    /\ fanPc = "after"
    /\ fanPc' = "failed"
    /\ UNCHANGED <<fanOp, fanLegs, fanRequests, otherThanFan>>

AfterReturns ==
    /\ fanPc = "after"
    /\ fanPc' = "done"
    /\ UNCHANGED <<fanOp, fanLegs, fanRequests, otherThanFan>>

NextFan ==
    \/ FanStart
    \/ BeforeThrows
    \/ BeforeReturns
    \/ \E i \in 1..Len(fanLegs) : LegReturns(i)
    \/ \E i \in 1..Len(fanLegs) : LegThrowsCaught(i)
    \/ \E i \in 1..Len(fanLegs) : LegThrowsRejects(i)
    \/ Join
    \/ AfterThrows
    \/ AfterReturns

SpecFan == InitFan /\ [][NextFan]_vars

(***************************************************************************)
(* Claims about the joined lookups                                         *)
(***************************************************************************)
LegFailed(i) == fanLegs[i] \in {"caught", "rejected"}

\* C20: in every operation that joins concurrent lookups the legs are all
\* requested before any settles, and if any one leg fails the whole
\* operation fails and no combined result is produced.  getAddressInfo and
\* listProviders catch each leg's failure and build their result from a
\* default.
C20_NoPartialRecovery ==
    /\ fanPc = "legs" =>
          Len(fanRequests) = Len(Before(fanOp)) + Len(fanLegs)
    /\ (\E i \in 1..Len(fanLegs) : LegFailed(i)) => fanPc = "failed"

(***************************************************************************)
(* nodes/Filecoin/Filecoin.node.ts: Filecoin.execute                       *)
(***************************************************************************)
\* The input items of one run.
MaxItems == 3

\* What awaiting one item's operation comes to: the entries it returns, or
\* the value it throws, an Error with a message or something else.
ItemReturns(n) ==
    [threw |-> FALSE, isError |-> FALSE, message |-> <<>>, entries |-> n]

ItemThrows(isError, message) ==
    [threw |-> TRUE, isError |-> isError, message |-> message, entries |-> 0]

\* default: throw new Error(`Unknown resource: ${resource}`)
UnknownResource == ItemThrows(TRUE, <<"Unknown resource: ", "swap">>)

ItemOutcomes ==
    {ItemReturns(1), ItemReturns(2), UnknownResource,
     ItemThrows(TRUE, <<"Request failed">>), ItemThrows(FALSE, <<>>)}

\* An entry an operation returned for item i; the operations pair nothing.
ResultEntry(i) ==
    [error |-> FALSE, message |-> <<>>, pairedItem |-> 0 - 1, item |-> i]

\* error instanceof Error ? error.message : 'Unknown error'
ErrorMessageOf(error) ==
    IF error.isError THEN error.message ELSE <<"Unknown error">>

ErrorEntryPairedToNext(error, i) ==
    [error |-> TRUE, message |-> ErrorMessageOf(error), pairedItem |-> i + 1,
     item |-> i]

\* { json: { error: ... }, pairedItem: { item: i } }
ErrorEntry(error, i) ==
    [error |-> TRUE, message |-> ErrorMessageOf(error), pairedItem |-> i,
     item |-> i]

\* The variables of the converter, the client, the handlers and the utilities.
earlierVars ==
    <<convVars, rpcVars, handlerVars, pieceVars, addrVars, cidVars, dealVars,
      fanVars>>

\* None of them in use.
EarlierIdle ==
    /\ amount = <<>>
    /\ ConvIdle
    /\ RpcIdle
    /\ HandlerIdle
    /\ PieceIdle
    /\ AddrIdle
    /\ CidIdle
    /\ DealIdle
    /\ FanIdle

otherThanExec == <<earlierVars, keyVars, trigVars, statusVars, msigVars>>

InitExecute ==
    /\ exCount \in 0..MaxItems
    /\ exContinue \in BOOLEAN
    /\ exIndex = 0
    /\ exCalled = <<>>
    /\ exReturnData = <<>>
    /\ exPc = "loop"
    /\ EarlierIdle
    /\ KeyIdle
    /\ TriggerIdle
    /\ StatusIdle
    /\ MsigIdle

\* The operation of item i returns: returnData.push(...result)
ItemSucceeds ==
    /\ exPc = "loop"
    /\ exIndex < exCount
    /\ \E o \in {x \in ItemOutcomes : ~x.threw} :
          exReturnData' =
              exReturnData \o [k \in 1..o.entries |-> ResultEntry(exIndex)]
    /\ exCalled' = Append(exCalled, [item |-> exIndex, threw |-> FALSE])
    /\ exIndex' = exIndex + 1
    /\ UNCHANGED <<exCount, exContinue, exPc, otherThanExec>>

\* catch (error): continueOnFail() answers true, the entry is pushed, continue
ItemFailsAndContinues ==
    /\ exPc = "loop"
    /\ exIndex < exCount
    /\ exContinue
    /\ \E o \in {x \in ItemOutcomes : x.threw} :
          exReturnData' = Append(exReturnData, ErrorEntry(o, exIndex))
    /\ exCalled' = Append(exCalled, [item |-> exIndex, threw |-> TRUE])
    /\ exIndex' = exIndex + 1
    /\ UNCHANGED <<exCount, exContinue, exPc, otherThanExec>>

\* catch (error): continueOnFail() answers false, throw error
ItemFailsAndThrows ==
    /\ exPc = "loop"
    /\ exIndex < exCount
    /\ ~exContinue
    /\ \E o \in {x \in ItemOutcomes : x.threw} : TRUE
    /\ exCalled' = Append(exCalled, [item |-> exIndex, threw |-> TRUE])
    /\ exPc' = "thrown"
    /\ UNCHANGED <<exCount, exContinue, exIndex, exReturnData, otherThanExec>>

\* i reached items.length: return [returnData]
ExecuteReturns ==
    /\ exPc = "loop"
    /\ exIndex = exCount
    /\ exPc' = "returned"
    /\ UNCHANGED <<exCount, exContinue, exIndex, exCalled, exReturnData,
                   otherThanExec>>

NextExecute ==
    \/ ItemSucceeds
    \/ ItemFailsAndContinues
    \/ ItemFailsAndThrows
    \/ ExecuteReturns

SpecExecute == InitExecute /\ [][NextExecute]_vars

(***************************************************************************)
(* Claims about Filecoin.execute                                           *)
(***************************************************************************)
\* The error entries of returnData paired to item i.
ErrorEntriesOf(i) ==
    {j \in DOMAIN exReturnData :
        exReturnData[j].error /\ exReturnData[j].pairedItem = i}

\* The items whose operation threw.
FailedCalls == {k \in DOMAIN exCalled : exCalled[k].threw}

\* C21: execute calls the items' operations in input order. With
\* continueOnFail every failing item leaves exactly one error entry paired to
\* it, the run does not throw, and the list is returned only after every item
\* was called. Without it the first failing item is the last one called, the
\* run throws, and a run that returns a list had no failing item.
C21_FailureConfinedToItem ==
    /\ \A k \in DOMAIN exCalled : exCalled[k].item = k - 1
    /\ \A j \in DOMAIN exReturnData :
          /\ exReturnData[j].item < Len(exCalled)
          /\ \A h \in 1..j : exReturnData[h].item <= exReturnData[j].item
    /\ exContinue =>
          /\ exPc # "thrown"
          /\ \A k \in DOMAIN exCalled :
                Cardinality(ErrorEntriesOf(exCalled[k].item))
                    = IF exCalled[k].threw THEN 1 ELSE 0
          /\ exPc = "returned" => Len(exCalled) = exCount
    /\ ~exContinue =>
          /\ \A k \in FailedCalls : k = Len(exCalled) /\ exPc = "thrown"
          /\ exPc = "thrown" => FailedCalls # {}
          /\ exPc = "returned" =>
                FailedCalls = {} /\ Len(exCalled) = exCount
          /\ \A j \in DOMAIN exReturnData : ~exReturnData[j].error

\* A run with continueOnFail returned after its first item failed and the
\* two after it were still called, one of them failing as well.
C21_Witness ==
    /\ exContinue
    /\ exPc = "returned"
    /\ exCount = MaxItems
    /\ exCalled[1].threw
    /\ ~exCalled[2].threw
    /\ exCalled[3].threw
    /\ Len(exReturnData) >= 3

(***************************************************************************)
(* actions/gas/gas.ts (exportPrivateKey, importPrivateKey) and             *)
(* transport/fevmClient.ts (constructor, getSigner): private keys          *)
(***************************************************************************)
\* Private keys a credential or an importPrivateKey item can hold.
PrivateKeys ==
    { <<"0", "x", "a", "1">>, <<"b", "2">>, <<"7", "b", "2", "2">> }

\* The wallet operations concerned, and one the switch does not know.
KeyOperations == {"exportPrivateKey", "importPrivateKey", "rotateKey"}

\* importPrivateKey validating its key and quoting it.
executeWalletOperationQuotingKey(operation, address, privateKey) ==
    CASE operation = "exportPrivateKey" ->
           IF ~validateAddress(address)
           THEN <<"Invalid Filecoin address: ">> \o address
           ELSE <<>>
      [] operation = "importPrivateKey" ->
           <<"Invalid private key: ">> \o privateKey
      [] OTHER -> <<"Unknown operation: ", operation>>

\* The message of the error executeWalletOperation itself throws for the
\* operation, <<>> when it goes on to its Lotus request.
executeWalletOperation(operation, address, privateKey) ==
    CASE operation = "exportPrivateKey" ->
           IF ~validateAddress(address)
           THEN <<"Invalid Filecoin address: ">> \o address
           ELSE <<>>
      [] operation = "importPrivateKey" -> <<>>
      [] OTHER -> <<"Unknown operation: ", operation>>

\* new FevmClient(config).wallet: the key the Wallet is made of, <<>> for null.
FevmWallet(privateKey) ==
    IF privateKey = <<>> THEN <<>>
    ELSE IF startsWith(privateKey, <<"0", "x">>) THEN privateKey
    ELSE <<"0", "x">> \o privateKey

\* getSigner(): the message thrown, <<>> when the wallet is returned.
getSigner(wallet) ==
    IF wallet = <<>>
    THEN <<"No wallet configured. Private key required for signing.">>
    ELSE <<>>

otherThanKey == <<earlierVars, execVars, trigVars, statusVars, msigVars>>

\* Two runs on the same parameters, each with a private key of its own.
InitKey ==
    /\ keyParams \in
          [operation : KeyOperations \cup {"getSigner"},
           address : ItemAddresses,
           configured : BOOLEAN]
    /\ keySecret \in [1..2 -> PrivateKeys]
    /\ keyError = <<>>
    /\ keyPc = "input"
    /\ EarlierIdle
    /\ ExecIdle
    /\ TriggerIdle
    /\ StatusIdle
    /\ MsigIdle

\* A wallet operation of gas.ts is run, in both runs.
WalletOperation ==
    /\ keyPc = "input"
    /\ keyParams.operation \in KeyOperations
    /\ keyError' =
          [r \in 1..2 |->
              executeWalletOperation(keyParams.operation, keyParams.address,
                                     keySecret[r])]
    /\ keyPc' = "done"
    /\ UNCHANGED <<keyParams, keySecret, otherThanKey>>

\* A FevmClient is constructed from the credentials and asked for its signer,
\* in both runs; the credentials hold the run's key or none.
FevmSigner ==
    /\ keyPc = "input"
    /\ keyParams.operation = "getSigner"
    /\ keyError' =
          [r \in 1..2 |->
              getSigner(FevmWallet(IF keyParams.configured
                                   THEN keySecret[r] ELSE <<>>))]
    /\ keyPc' = "done"
    /\ UNCHANGED <<keyParams, keySecret, otherThanKey>>

NextKey == WalletOperation \/ FevmSigner

SpecKey == InitKey /\ [][NextKey]_vars

MaxPolls == 3

\* bigint a - b for a >= b, digit by digit from the right
RECURSIVE MinusDigits(_, _, _)
MinusDigits(a, b, borrow) ==
    IF a = <<>> THEN <<>>
    ELSE LET db == IF b = <<>> THEN 0 ELSE DigitValue(b[Len(b)])
             d == DigitValue(a[Len(a)]) - db - borrow
         IN  MinusDigits(SubSeq(a, 1, Len(a) - 1), SubSeq(b, 1, Len(b) - 1),
                         IF d < 0 THEN 1 ELSE 0)
                 \o <<DigitChar(IF d < 0 THEN d + 10 ELSE d)>>

\* current > last ? current - last : last - current
BigDistance(current, last) ==
    IF BigLess(last, current)
    THEN StripLeadingZeros(MinusDigits(current, last, 0))
    ELSE StripLeadingZeros(MinusDigits(last, current, 0))

\* The minChange parameters: 0.001 (the default), 0.009 and 0.07 FIL.
MinChanges ==
    { <<"0", ".", "0", "0", "1">>, <<"0", ".", "0", "0", "9">>,
      <<"0", ".", "0", "7">> }

\* BigInt(Math.floor(parseFloat(minChange) * 1e18)): the product is an
\* IEEE 754 double, the double nearest to the exact product of the double
\* nearest to minChange and 1e18. 0.001 gives 1000000000000000 exactly,
\* 0.009 gives 8999999999999999 and 0.07 gives 70000000000000008.
minChangeAtto(minChange) ==
    CASE minChange = <<"0", ".", "0", "0", "1">> -> <<"1">> \o Zeros(15)
      [] minChange = <<"0", ".", "0", "0", "9">> -> <<"8">> \o Repeat(<<"9">>, 15)
      [] OTHER -> <<"7">> \o Zeros(15) \o <<"8">>

\* minChange FIL in attoFIL, exactly: the decimal point moved 18 places.
AttoOf(minChange) ==
    LET point == CHOOSE i \in DOMAIN minChange : minChange[i] = "."
        fraction == SubSeq(minChange, point + 1, Len(minChange))
    IN  StripLeadingZeros(SubSeq(minChange, 1, point - 1) \o fraction
                              \o Zeros(18 - Len(fraction)))

\* The balances WalletBalance answers, in attoFIL: 0, 0.001 FIL, one attoFIL
\* less than 0.009 FIL, 0.009 FIL, 0.07 FIL and 8 attoFIL more.
Balances ==
    { <<"0">>, <<"1">> \o Zeros(15), <<"8">> \o Repeat(<<"9">>, 15),
      <<"9">> \o Zeros(15), <<"7">> \o Zeros(16),
      <<"7">> \o Zeros(15) \o <<"8">> }

\* The heights ChainHead answers.
Heights == {100, 101, 103}

\* Blocks[0].ParentBaseFee as ChainHead answers it, <<>> when it is missing.
BaseFees ==
    { <<>>, <<"0">>, <<"1", "0", "0">>, <<"1", "0", "9">>, <<"1", "1", "0">>,
      <<"2", "0", "0">> }

\* The State of the deal StateMarketStorageDeal answers: not yet in a sector,
\* active in a sector, slashed.
DealState(start, slash) == [SectorStartEpoch |-> start, SlashEpoch |-> slash]

DealStates == {DealState(0 - 1, 0 - 1), DealState(50, 0 - 1), DealState(50, 90)}

\* MinerPower.QualityAdjPower as StateMinerPower answers it.
Powers == { <<>>, <<"0">>, <<"3", "2">>, <<"6", "4">> }

TriggerTypes ==
    {"newTipset", "balanceChanged", "messageConfirmed", "filReceived",
     "dealStatusChanged", "minerPowerChanged", "baseFeeChanged", "newDeal"}

\* The parameters the trigger type reads, the others at their defaults.
TriggerParams(address, minChange, feeThreshold) ==
    [address |-> address, minChange |-> minChange,
     feeThreshold |-> feeThreshold]

TriggerAddresses ==
    { <<"f", "0", "1", "2", "3", "4">>, <<"i", "n", "v", "a", "l", "i", "d">> }

ParamsOf(type) ==
    LET anyAddress == <<"f", "0", "1", "2", "3", "4">>
        default == <<"0", ".", "0", "0", "1">>
    IN  CASE type \in {"balanceChanged", "filReceived"} ->
               {TriggerParams(a, m, 10) : a \in TriggerAddresses, m \in MinChanges}
          [] type = "minerPowerChanged" ->
               {TriggerParams(a, default, 10) : a \in TriggerAddresses}
          [] type = "baseFeeChanged" ->
               {TriggerParams(anyAddress, default, t) : t \in {0, 10, 100}}
          [] OTHER -> {TriggerParams(anyAddress, default, 10)}

\* No key of the static data set.
NoStaticData ==
    [lastHeight |-> <<>>, lastBalance |-> <<>>, messageConfirmed |-> FALSE,
     lastDealState |-> <<>>, lastPower |-> <<>>, lastBaseFee |-> <<>>]

\* One poll: how its read went ("ok", "failed", "none" when none was made),
\* what was read, the error the catch block received, the requests made, the
\* events pushed, what poll() came to, and the static data and the latest
\* successful read as they were before it.
PollRecord(read, observed, caught, requests, events, returned) ==
    [read |-> read, observed |-> observed, caught |-> caught,
     requests |-> requests, events |-> events, returned |-> returned,
     before |-> staticData, previous |-> tSeen]

NoPoll == PollRecord("none", <<>>, "", <<>>, <<>>, "none")

\* An event pushed to returnData.
TriggerEvent(previous, current, change) ==
    [triggerType |-> tType, previous |-> previous, current |-> current,
     change |-> change]

otherThanTrigger ==
    <<earlierVars, execVars, keyVars, statusVars, msigVars>>

InitTrigger ==
    /\ tType \in TriggerTypes
    /\ tParams \in ParamsOf(tType)
    /\ staticData = NoStaticData
    /\ tSeen = <<>>
    /\ tPolls = 0
    /\ tEmitted = 0
    /\ tLast = NoPoll
    /\ EarlierIdle
    /\ ExecIdle
    /\ KeyIdle
    /\ StatusIdle
    /\ MsigIdle

\* if (returnData.length === 0) return null; return [returnData]
PollReturn(events) == IF events = <<>> THEN "null" ELSE "events"

\* The poll got through its branch: the static data is as written and the
\* events pushed are returned.
Stores(observed, requests, events, written) ==
    /\ tLast' = PollRecord("ok", <<observed>>, "", requests, events,
                           PollReturn(events))
    /\ staticData' = written
    /\ tSeen' = <<observed>>
    /\ tPolls' = tPolls + 1
    /\ tEmitted' = tEmitted + Len(events)
    /\ UNCHANGED <<tType, tParams, otherThanTrigger>>

\* A catch block that rethrows: the poll rejects.
Rethrows(read, observed, caught, requests) ==
    /\ tLast' = PollRecord(read, observed, caught, requests, <<>>, "rejected")
    /\ tSeen' = IF read = "ok" THEN observed ELSE tSeen
    /\ tPolls' = tPolls + 1
    /\ UNCHANGED <<tType, tParams, staticData, tEmitted, otherThanTrigger>>

\* The poll ends with nothing pushed and the static data as it was: the
\* branch threw and the catch block logged the error, an inner catch
\* swallowed a failed request, or the branch had nothing to do.
ReturnsNull(read, observed, caught, requests) ==
    /\ tLast' = PollRecord(read, observed, caught, requests, <<>>,
                           PollReturn(<<>>))
    /\ tSeen' = IF read = "ok" THEN observed ELSE tSeen
    /\ tPolls' = tPolls + 1
    /\ UNCHANGED <<tType, tParams, staticData, tEmitted, otherThanTrigger>>

\* The poll of a trigger of the type is due.
Due(type) == tType = type /\ tPolls < MaxPolls

\* await this.getCredentials('filecoinNetwork') rejects, before the try
\* block: poll() rejects.
PollRejects ==
    /\ tPolls < MaxPolls
    /\ tLast' = PollRecord("none", <<>>, "", <<>>, <<>>, "rejected")
    /\ tPolls' = tPolls + 1
    /\ UNCHANGED <<tType, tParams, staticData, tSeen, tEmitted,
                   otherThanTrigger>>

\* A guard that also takes a head at the stored height for a new one.
TipsetNotBehind(lastHeight, currentHeight) ==
    lastHeight = <<>> \/ currentHeight >= lastHeight[1]

\* lastHeight === undefined || currentHeight > lastHeight
TipsetAdvanced(lastHeight, currentHeight) ==
    lastHeight = <<>> \/ currentHeight > lastHeight[1]

\* case 'newTipset'
PollNewTipset ==
    /\ Due("newTipset")
    /\ \/ ReturnsNull("failed", <<>>, "request failed", <<"ChainHead">>)
       \/ \E currentHeight \in Heights :
             LET lastHeight == staticData.lastHeight
             IN  IF TipsetAdvanced(lastHeight, currentHeight)
                 THEN Stores(currentHeight, <<"ChainHead">>,
                             IF lastHeight # <<>>
                             THEN <<TriggerEvent(lastHeight[1], currentHeight,
                                                 currentHeight - lastHeight[1])>>
                             ELSE <<>>,
                             [staticData EXCEPT !.lastHeight = <<currentHeight>>])
                 ELSE Stores(currentHeight, <<"ChainHead">>, <<>>, staticData)

\* case 'balanceChanged'
PollBalanceChanged ==
    /\ Due("balanceChanged")
    /\ IF ~validateAddress(tParams.address)
       THEN ReturnsNull("none", <<>>, "Invalid address", <<>>)
       ELSE \/ ReturnsNull("failed", <<>>, "request failed", <<"WalletBalance">>)
            \/ \E currentBalance \in Balances :
                  LET lastBalance == staticData.lastBalance
                      diff == BigDistance(BigIntOfString(currentBalance),
                                          BigIntOfString(lastBalance[1]))
                      emits ==
                          /\ lastBalance # <<>>
                          /\ ~BigLess(diff, minChangeAtto(tParams.minChange))
                  IN  Stores(currentBalance, <<"WalletBalance">>,
                             IF emits
                             THEN <<TriggerEvent(lastBalance[1], currentBalance,
                                                 diff)>>
                             ELSE <<>>,
                             [staticData EXCEPT !.lastBalance = <<currentBalance>>])

\* A guard that asks for the receipt whatever was stored.
AsksAlways(wasConfirmed) == TRUE

\* if (!wasConfirmed)
AsksForReceipt(wasConfirmed) == ~wasConfirmed

\* case 'messageConfirmed': StateGetReceipt fails, answers null, or answers
\* the receipt
PollMessageConfirmed ==
    /\ Due("messageConfirmed")
    /\ IF ~AsksForReceipt(staticData.messageConfirmed)
       THEN ReturnsNull("none", <<>>, "", <<>>)
       ELSE \/ ReturnsNull("failed", <<>>, "request failed",
                           <<"StateGetReceipt">>)
            \/ ReturnsNull("ok", <<"null">>, "", <<"StateGetReceipt">>)
            \/ Stores("receipt", <<"StateGetReceipt">>,
                      <<TriggerEvent("", "receipt", "")>>,
                      [staticData EXCEPT !.messageConfirmed = TRUE])

\* case 'filReceived'
PollFilReceived ==
    /\ Due("filReceived")
    /\ IF ~validateAddress(tParams.address)
       THEN ReturnsNull("none", <<>>, "Invalid address", <<>>)
       ELSE \/ ReturnsNull("failed", <<>>, "request failed", <<"WalletBalance">>)
            \/ \E currentBalance \in Balances :
                  LET lastBalance == staticData.lastBalance
                      current == BigIntOfString(currentBalance)
                      last == BigIntOfString(lastBalance[1])
                      received == BigDistance(current, last)
                      emits ==
                          /\ lastBalance # <<>>
                          /\ BigLess(last, current)
                          /\ ~BigLess(received, minChangeAtto(tParams.minChange))
                  IN  Stores(currentBalance, <<"WalletBalance">>,
                             IF emits
                             THEN <<TriggerEvent(lastBalance[1], currentBalance,
                                                 received)>>
                             ELSE <<>>,
                             [staticData EXCEPT !.lastBalance = <<currentBalance>>])

\* case 'dealStatusChanged': ChainHead fails; StateMarketStorageDeal fails
\* inside the inner try; or the deal is read
PollDealStatusChanged ==
    /\ Due("dealStatusChanged")
    /\ \/ ReturnsNull("failed", <<>>, "request failed", <<"ChainHead">>)
       \/ ReturnsNull("failed", <<>>, "request failed",
                      <<"ChainHead", "StateMarketStorageDeal">>)
       \/ \E state \in DealStates :
             LET lastState == staticData.lastDealState
                 emits == lastState # <<>> /\ state.SlashEpoch # lastState[1]
             IN  Stores(state, <<"ChainHead", "StateMarketStorageDeal">>,
                        IF emits
                        THEN <<TriggerEvent(lastState[1], state.SlashEpoch,
                                            state.SectorStartEpoch)>>
                        ELSE <<>>,
                        [staticData EXCEPT !.lastDealState = <<state.SlashEpoch>>])

\* case 'minerPowerChanged'
PollMinerPowerChanged ==
    /\ Due("minerPowerChanged")
    /\ IF ~validateAddress(tParams.address)
       THEN ReturnsNull("none", <<>>, "Invalid miner address", <<>>)
       ELSE \/ ReturnsNull("failed", <<>>, "request failed", <<"ChainHead">>)
            \/ ReturnsNull("failed", <<>>, "request failed",
                           <<"ChainHead", "StateMinerPower">>)
            \/ \E power \in Powers :
                  LET currentPower == IF power = <<>> THEN <<"0">> ELSE power
                      lastPower == staticData.lastPower
                      emits == lastPower # <<>> /\ currentPower # lastPower[1]
                  IN  Stores(currentPower, <<"ChainHead", "StateMinerPower">>,
                             IF emits
                             THEN <<TriggerEvent(lastPower[1], currentPower,
                                       IF BigLess(BigIntOfString(lastPower[1]),
                                                  BigIntOfString(currentPower))
                                       THEN <<"increased">>
                                       ELSE <<"decreased">>)>>
                             ELSE <<>>,
                             [staticData EXCEPT !.lastPower = <<currentPower>>])

\* Number((diff * BigInt(100)) / last), for last # 0n
percentChange(current, last) ==
    ((IF current > last THEN current - last ELSE last - current) * 100)
        \div last

\* case 'baseFeeChanged': with "0" stored the bigint division throws a
\* RangeError before lastBaseFee is assigned
PollBaseFeeChanged ==
    /\ Due("baseFeeChanged")
    /\ \/ ReturnsNull("failed", <<>>, "request failed", <<"ChainHead">>)
       \/ \E fee \in BaseFees :
             LET currentBaseFee == IF fee = <<>> THEN <<"0">> ELSE fee
                 lastBaseFee == staticData.lastBaseFee
                 current == NumberOf(currentBaseFee)
                 last == NumberOf(lastBaseFee[1])
             IN  IF lastBaseFee # <<>> /\ last = 0
                 THEN ReturnsNull("ok", <<currentBaseFee>>,
                                  "RangeError: Division by zero",
                                  <<"ChainHead">>)
                 ELSE Stores(currentBaseFee, <<"ChainHead">>,
                             IF /\ lastBaseFee # <<>>
                                /\ percentChange(current, last)
                                       >= tParams.feeThreshold
                             THEN <<TriggerEvent(lastBaseFee[1], currentBaseFee,
                                       Decimal(percentChange(current, last)))>>
                             ELSE <<>>,
                             [staticData EXCEPT !.lastBaseFee = <<currentBaseFee>>])

\* default: throw new Error(`Unknown trigger type: ${triggerType}`)
PollUnknownType ==
    /\ Due("newDeal")
    /\ ReturnsNull("none", <<>>, "Unknown trigger type", <<>>)

NextTrigger ==
    \/ PollRejects
    \/ PollNewTipset
    \/ PollBalanceChanged
    \/ PollMessageConfirmed
    \/ PollFilReceived
    \/ PollDealStatusChanged
    \/ PollMinerPowerChanged
    \/ PollBaseFeeChanged
    \/ PollUnknownType

SpecTrigger == InitTrigger /\ [][NextTrigger]_vars

(***************************************************************************)
(* Claims about FilecoinTrigger.poll                                       *)
(***************************************************************************)
\* C23: a Deal Status Changed poll that reads the deal emits nothing when no
\* earlier poll read it, and otherwise emits exactly when the deal's State
\* differs from the State the previous successful poll read, as when the
\* deal became active.
C23_EmitsOnEveryStateChange ==
    (tType = "dealStatusChanged" /\ tLast.read = "ok") =>
        IF tLast.previous = <<>> THEN tLast.events = <<>>
        ELSE tLast.events # <<>> <=> tLast.observed[1] # tLast.previous[1]

\* C24: lastHeight never decreases. A New Tipset poll that reads the head
\* with no height stored stores it and emits nothing; with a height stored
\* it emits one event exactly when the head is higher, then stores the
\* head, and the event's blocksAdded is height - previousHeight >= 1.
C24_OneEventPerAdvance ==
    tType = "newTipset" =>
        /\ tLast.before.lastHeight # <<>> =>
              /\ staticData.lastHeight # <<>>
              /\ staticData.lastHeight[1] >= tLast.before.lastHeight[1]
        /\ tLast.read # "ok" => tLast.events = <<>>
        /\ tLast.read = "ok" =>
              LET height == tLast.observed[1]
                  lastHeight == tLast.before.lastHeight
              IN  IF lastHeight = <<>>
                  THEN tLast.events = <<>> /\ staticData.lastHeight = <<height>>
                  ELSE /\ Len(tLast.events)
                              = IF height > lastHeight[1] THEN 1 ELSE 0
                       /\ staticData.lastHeight
                              = <<MaxOf({height, lastHeight[1]})>>
                       /\ \A j \in DOMAIN tLast.events :
                             /\ tLast.events[j].current = height
                             /\ tLast.events[j].previous = lastHeight[1]
                             /\ tLast.events[j].change = height - lastHeight[1]
                             /\ tLast.events[j].change >= 1

\* A poll found the head three blocks above the stored height.
C24_Witness ==
    /\ tType = "newTipset"
    /\ tLast.events # <<>>
    /\ tLast.events[1].change = 3
    /\ staticData.lastHeight = <<103>>

\* C25: Message Confirmed emits at most one event over all polls. A poll
\* whose StateGetReceipt fails or answers nothing emits nothing and leaves
\* the message unconfirmed, so the next poll asks again; a poll that gets
\* the receipt emits one event; after that no poll asks or emits.
C25_AtMostOneConfirmation ==
    tType = "messageConfirmed" =>
        /\ tEmitted <= 1
        /\ staticData.messageConfirmed <=> tEmitted = 1
        /\ tLast.before.messageConfirmed =>
              tLast.requests = <<>> /\ tLast.events = <<>>
        /\ (~tLast.before.messageConfirmed /\ tLast.returned \in {"null", "events"})
              => tLast.requests = <<"StateGetReceipt">>
        /\ (tLast.read = "failed" \/ tLast.observed = <<"null">>) =>
              tLast.events = <<>> /\ ~staticData.messageConfirmed
        /\ tLast.observed = <<"receipt">> =>
              Len(tLast.events) = 1 /\ staticData.messageConfirmed

\* The message was confirmed by the second poll, after a first one without
\* a receipt, and the third one asked nothing.
C25_Witness ==
    /\ tType = "messageConfirmed"
    /\ tPolls = 3
    /\ tEmitted = 1
    /\ tLast.before.messageConfirmed
    /\ tLast.returned = "null"
    /\ tLast.previous = <<"receipt">>

\* C26: every Base Fee Changed poll that reads the head stores the base fee
\* read as lastBaseFee, whatever was stored, "0" included; with a fee above
\* zero stored it emits exactly when floor(100 * |current - last| / last) is
\* at least feeThreshold.
C26_EveryReadFeeStored ==
    (tType = "baseFeeChanged" /\ tLast.read = "ok") =>
        /\ staticData.lastBaseFee = tLast.observed
        /\ tLast.before.lastBaseFee # <<>> =>
              LET current == NumberOf(tLast.observed[1])
                  last == NumberOf(tLast.before.lastBaseFee[1])
                  distance == MaxOf({current, last}) - MinOf({current, last})
              IN  last > 0 =>
                      (tLast.events # <<>>
                          <=> (100 * distance) \div last >= tParams.feeThreshold)

\* C27: every Balance Changed poll that reads the balance stores it as
\* lastBalance, and emits exactly when a balance was stored before and
\* |current - lastBalance| is at least minChange FIL.
C27_EmitsIffAtLeastMinChange ==
    (tType = "balanceChanged" /\ tLast.read = "ok") =>
        /\ staticData.lastBalance = tLast.observed
        /\ tLast.events # <<>> <=>
              /\ tLast.before.lastBalance # <<>>
              /\ ~BigLess(BigDistance(tLast.observed[1],
                                      tLast.before.lastBalance[1]),
                          AttoOf(tParams.minChange))

\* C28 as stated: poll() never rejects; an error raised while polling is
\* caught and the poll returns null with no event; a poll whose read fails
\* leaves the static data as it was.
C28_NeverPropagates ==
    /\ tLast.returned # "rejected"
    /\ tLast.caught # "" => tLast.returned = "null" /\ tLast.events = <<>>
    /\ tLast.read = "failed" => staticData = tLast.before

\* C28: every error raised inside the try block (invalid address, failed
\* request, unknown trigger type, bigint division by zero) is caught and the
\* poll returns null with no event; a poll whose read fails leaves the
\* static data as it was; poll() rejects only when the credentials cannot
\* be read, before any request and with the static data untouched.
C28_ErrorsInsideTryCaught ==
    /\ tLast.caught # "" => tLast.returned = "null" /\ tLast.events = <<>>
    /\ tLast.read = "failed" =>
          staticData = tLast.before /\ tLast.returned = "null"
    /\ tLast.returned = "rejected" =>
          /\ tLast.requests = <<>>
          /\ tLast.caught = ""
          /\ staticData = tLast.before

\* WalletBalance failed on a poll that had a balance stored.
C28_Witness ==
    /\ tType = "balanceChanged"
    /\ tLast.read = "failed"
    /\ tLast.caught = "request failed"
    /\ tLast.before.lastBalance # <<>>
    /\ tLast.returned = "null"

(***************************************************************************)
(* getDealStatus (unnamed/part_003)                                        *)
(***************************************************************************)
\* The deals StateMarketStorageDeal answers: in State, SectorStartEpoch and
\* SlashEpoch are -1 until the deal is activated or slashed.
StatusDeals ==
    [SectorStartEpoch : {0 - 1, 50}, SlashEpoch : {0 - 1, 90},
     StartEpoch : {40, 60}, EndEpoch : {100}]

\* The heights ChainHead answers.
StatusEpochs == {10, 40, 59, 60, 99, 100, 120}

\* if (deal.State.SlashEpoch > 0) ... else stateLabel = 'Proposed'
stateLabel(d, currentEpoch) ==
    IF d.SlashEpoch > 0 THEN "Slashed"
    ELSE IF currentEpoch >= d.EndEpoch THEN "Expired"
    ELSE IF d.SectorStartEpoch > 0 THEN "Active"
    ELSE IF currentEpoch >= d.StartEpoch THEN "Pending Activation"
    ELSE "Proposed"

\* isActive: deal.State.SectorStartEpoch > 0 && deal.State.SlashEpoch === -1
isActive(d) == d.SectorStartEpoch > 0 /\ d.SlashEpoch = 0 - 1

\* isSlashed: deal.State.SlashEpoch > 0
isSlashed(d) == d.SlashEpoch > 0

otherThanStatus == <<earlierVars, execVars, keyVars, trigVars, msigVars>>

InitStatus ==
    /\ sPc = "start"
    /\ sDeal = <<>>
    /\ sCurrentEpoch = 0
    /\ sResult = <<>>
    /\ EarlierIdle
    /\ ExecIdle
    /\ KeyIdle
    /\ TriggerIdle
    /\ MsigIdle

\* await lotus.stateMarketStorageDeal(dealId): the deal, or the rejection
\* that ends the operation
AwaitDeal ==
    /\ sPc = "start"
    /\ \/ \E d \in StatusDeals : sDeal' = d /\ sPc' = "ChainHead"
       \/ sDeal' = sDeal /\ sPc' = "failed"
    /\ UNCHANGED <<sCurrentEpoch, sResult, otherThanStatus>>

\* await lotus.getChainHead(): currentEpoch = head.Height, or the rejection
AwaitHead ==
    /\ sPc = "ChainHead"
    /\ \/ \E h \in StatusEpochs : sCurrentEpoch' = h /\ sPc' = "built"
       \/ sCurrentEpoch' = sCurrentEpoch /\ sPc' = "failed"
    /\ UNCHANGED <<sDeal, sResult, otherThanStatus>>

\* result = { status: stateLabel, isActive, isSlashed, epochsRemaining, ... }
BuildStatus ==
    /\ sPc = "built"
    /\ sResult' =
          [status |-> stateLabel(sDeal, sCurrentEpoch),
           isActive |-> isActive(sDeal),
           isSlashed |-> isSlashed(sDeal),
           epochsRemaining |-> sDeal.EndEpoch - sCurrentEpoch]
    /\ sPc' = "done"
    /\ UNCHANGED <<sDeal, sCurrentEpoch, otherThanStatus>>

NextStatus == AwaitDeal \/ AwaitHead \/ BuildStatus

SpecStatus == InitStatus /\ [][NextStatus]_vars

(***************************************************************************)
(* Claims about getDealStatus                                              *)
(***************************************************************************)
\* C29: the result of getDealStatus carries one of the five labels, and its
\* label and flags agree: status is 'Slashed' exactly when isSlashed and
\* 'Active' exactly when isActive.
C29_LabelAndFlagsAgree ==
    sPc = "done" =>
        /\ sResult.status \in
              {"Slashed", "Expired", "Active", "Pending Activation", "Proposed"}
        /\ sResult.status = "Slashed" <=> sResult.isSlashed
        /\ sResult.status = "Active" <=> sResult.isActive

(***************************************************************************)
(* actions/multisig/multisig.ts: create                                    *)
(***************************************************************************)
\* The comma-separated entries of a signers parameter.
MaxEntries == 3

\* String.prototype.split(','): the pieces between the commas.
RECURSIVE split(_)
split(s) ==
    LET commas == {i \in DOMAIN s : s[i] = ","}
    IN  IF commas = {} THEN <<s>>
        ELSE <<SubSeq(s, 1, MinOf(commas) - 1)>>
                 \o split(SubSeq(s, MinOf(commas) + 1, Len(s)))

\* .filter((s) => s): the empty strings are dropped
RECURSIVE filterNonEmpty(_)
filterNonEmpty(pieces) ==
    IF pieces = <<>> THEN <<>>
    ELSE (IF pieces[1] # <<>> THEN <<pieces[1]>> ELSE <<>>)
             \o filterNonEmpty(Tail(pieces))

\* signersStr.split(',').map((s) => s.trim()).filter((s) => s)
signersOf(str) ==
    LET pieces == split(str)
    IN  filterNonEmpty([j \in DOMAIN pieces |-> trim(pieces[j])])

\* What the user types between the commas: two addresses, one of them
\* padded with blanks, something that is no address, a blank, nothing.
SignerEntries ==
    { <<"f", "0", "1", "2", "3", "4">>, <<" ", "f", "0", "7", " ">>,
      <<"b", "a", "d">>, <<" ">>, <<>> }

RECURSIVE JoinedWithCommas(_)
JoinedWithCommas(entries) ==
    IF Len(entries) = 0 THEN <<>>
    ELSE IF Len(entries) = 1 THEN entries[1]
    ELSE entries[1] \o <<",">> \o JoinedWithCommas(Tail(entries))

SignersStrings ==
    UNION {{JoinedWithCommas(e) : e \in [1..n -> SignerEntries]} : n \in 0..MaxEntries}

\* The threshold parameter, a number field without limits.
Thresholds == (0 - 1)..4

\* The message of the error create throws before any request, <<>> for none.
createError(signers, t) ==
    IF Len(signers) < 2 THEN <<"Multisig requires at least 2 signers">>
    ELSE IF t > Len(signers)
      THEN <<"Threshold cannot exceed number of signers">>
    ELSE LET invalid == {j \in DOMAIN signers : ~validateAddress(signers[j])}
         IN  IF invalid # {}
             THEN <<"Invalid signer address: ">> \o signers[MinOf(invalid)]
             ELSE <<>>

otherThanMsig == <<earlierVars, execVars, keyVars, trigVars, statusVars>>

InitMsig ==
    /\ signersStr \in SignersStrings
    /\ threshold \in Thresholds
    /\ mPc = "start"
    /\ mRequests = <<>>
    /\ mError = <<>>
    /\ EarlierIdle
    /\ ExecIdle
    /\ KeyIdle
    /\ TriggerIdle
    /\ StatusIdle

\* The signers are split and checked: create throws, or asks for the
\* default wallet address.
CheckSigners ==
    /\ mPc = "start"
    /\ LET message == createError(signersOf(signersStr), threshold)
       IN  IF message # <<>>
           THEN mPc' = "failed" /\ mError' = message /\ mRequests' = mRequests
           ELSE /\ mPc' = "WalletDefaultAddress"
                /\ mRequests' = Append(mRequests, "WalletDefaultAddress")
                /\ mError' = mError
    /\ UNCHANGED <<signersStr, threshold, otherThanMsig>>

\* await lotus.getWalletDefaultAddress(): it rejects, or lotus.msigCreate is
\* called (initialBalance is an amount filToAttoFil accepts)
AwaitDefaultAddress ==
    /\ mPc = "WalletDefaultAddress"
    /\ \/ mPc' = "failed" /\ mRequests' = mRequests
       \/ mPc' = "MsigCreate" /\ mRequests' = Append(mRequests, "MsigCreate")
    /\ UNCHANGED <<signersStr, threshold, mError, otherThanMsig>>

\* await lotus.msigCreate(...): it rejects, or the result is built
AwaitMsigCreate ==
    /\ mPc = "MsigCreate"
    /\ mPc' \in {"failed", "done"}
    /\ UNCHANGED <<signersStr, threshold, mRequests, mError, otherThanMsig>>

NextMsig == CheckSigners \/ AwaitDefaultAddress \/ AwaitMsigCreate

SpecMsig == InitMsig /\ [][NextMsig]_vars

(***************************************************************************)
(* Claims about multisig create                                            *)
(***************************************************************************)
\* At least two signers, each a valid address, and a threshold from 1 to
\* the number of signers.
WellFormedMultisig ==
    LET signers == signersOf(signersStr)
    IN  /\ Len(signers) >= 2
        /\ \A j \in DOMAIN signers : validateAddress(signers[j])
        /\ 1 <= threshold
        /\ threshold <= Len(signers)

\* C30: create requests MsigCreate only for at least two signers, all of
\* them valid addresses, and a threshold from 1 to the number of signers;
\* for anything else it fails before any request.
C30_OnlyWellFormedMultisig ==
    /\ (\E j \in DOMAIN mRequests : mRequests[j] = "MsigCreate")
          => WellFormedMultisig
    /\ (~WellFormedMultisig /\ mPc # "start")
          => mPc = "failed" /\ mRequests = <<>>

====
